---------------------------- MODULE Spec2Model ----------------------------
(***************************************************************************)
(* Verification model of dso-api: the dynamic API's request context        *)
(* middleware, the virtual app registry, the router, the authorization     *)
(* layer, the filter and ordering engine, the remote proxy, the temporal   *)
(* serializer fields and the create_tables command.                        *)
(*                                                                         *)
(* Python's None is the empty sequence and a present value v is <<v>>, so  *)
(* that optional values of any type stay comparable.                       *)
(***************************************************************************)
EXTENDS Integers, Sequences, FiniteSets, TLC

None == <<>>
Some(v) == <<v>>

VARIABLES
    \* ---- request context (dso_api/dynamic_api/middleware.py) ----
    request,        \* the attributes of the HttpRequest the middleware touches
    view_schema,    \* view_func.cls.model._dataset_schema, None: AttributeError
    mw_pc,          \* position of the request in the middleware chain
    mw_before,      \* history: the request as TemporalDatasetMiddleware got it
    \* ---- virtual app registry (dso_api/dynamic_api/app_config.py) ----
    app_configs,    \* apps.app_configs: dataset id -> VirtualAppConfig, 0: no key
    all_models,     \* apps.all_models: dataset id -> the models registered
    migration_modules,  \* settings.MIGRATION_MODULES
    config_objs,    \* the VirtualAppConfig instances created so far
    thr,            \* per thread: its register_model call and where it is
    created,        \* history: VirtualAppConfig instances created per dataset
    registered,     \* history: models whose register_model call returned
    \* ---- router (spec 4.2; tests/test_dynamic_api/test_views.py) ----
    registry,       \* the resources (dataset, table) registered at the moment
    routing_table,  \* the published RoutingTable, a sequence of routes
    generation,     \* number of RoutingTables built so far
    live_generation,\* the generation whose views still serve, 0: none
    reqs,           \* per request: its position between resolve and execute
    last_loaded,    \* history: the resources of the latest reload or clear
    \* ---- authorization (spec 4.5; tests/test_dynamic_api/test_views.py) ----
    dataset_auth,   \* Dataset.auth of "afvalwegingen": a scope or None
    table_auth,     \* DatasetTable.auth per table
    field_auth,     \* DatasetField.auth per field of "containers"
    profiles,       \* the Profile objects created
    response,       \* the response to the latest GET, None before any
    \* ---- filters and ordering (rest_framework_dso/filters.py) ----
    filter_call,    \* the latest filter call: its name, arguments and result
    \* ---- one DSOOrderingFilter instance (rest_framework_dso/filters.py) ----
    self_ordering_param,    \* the instance's ordering_param attribute
    ordering_last,  \* the latest get_ordering call: its request and result
    ordering_calls, \* number of get_ordering calls made on the instance
    \* ---- remote proxy (dso_api/dynamic_api/remote/views.py) ----
    remote,         \* one _call_remote call: its request, position and result
    \* ---- serializer fields (dso_api/dynamic_api/fields.py) ----
    field_call,     \* the latest to_representation call
    \* ---- create_tables (datasets/management/commands/create_tables.py) ----
    ct              \* one run of create_tables

mwVars == <<request, view_schema, mw_pc, mw_before>>
regVars == <<app_configs, all_models, migration_modules, config_objs, thr,
             created, registered>>
routerVars == <<registry, routing_table, generation, live_generation, reqs,
                last_loaded>>

authVars == <<dataset_auth, table_auth, field_auth, profiles, response>>
filterVars == <<filter_call>>
orderingVars == <<self_ordering_param, ordering_last, ordering_calls>>
remoteVars == <<remote>>
fieldVars == <<field_call>>
tablesVars == <<ct>>

vars == <<request, view_schema, mw_pc, mw_before,
          app_configs, all_models, migration_modules, config_objs, thr,
          created, registered,
          registry, routing_table, generation, live_generation, reqs,
          last_loaded,
          dataset_auth, table_auth, field_auth, profiles, response,
          filter_call, self_ordering_param, ordering_last, ordering_calls,
          remote, field_call, ct>>

\* What a step of one component leaves alone: the other components' state.
MwFrame == UNCHANGED <<regVars, routerVars, authVars, filterVars,
                        orderingVars, remoteVars, fieldVars, tablesVars>>
RegFrame == UNCHANGED <<mwVars, routerVars, authVars, filterVars,
                         orderingVars, remoteVars, fieldVars, tablesVars>>
RouterFrame == UNCHANGED <<mwVars, regVars, authVars, filterVars,
                            orderingVars, remoteVars, fieldVars, tablesVars>>
AuthFrame == UNCHANGED <<mwVars, regVars, routerVars, filterVars,
                          orderingVars, remoteVars, fieldVars, tablesVars>>
FilterFrame == UNCHANGED <<mwVars, regVars, routerVars, authVars,
                            orderingVars, remoteVars, fieldVars, tablesVars>>
OrderingFrame == UNCHANGED <<mwVars, regVars, routerVars, authVars,
                              filterVars, remoteVars, fieldVars, tablesVars>>
RemoteFrame == UNCHANGED <<mwVars, regVars, routerVars, authVars,
                            filterVars, orderingVars, fieldVars, tablesVars>>
FieldFrame == UNCHANGED <<mwVars, regVars, routerVars, authVars,
                           filterVars, orderingVars, remoteVars, tablesVars>>
TablesFrame == UNCHANGED <<mwVars, regVars, routerVars, authVars,
                            filterVars, orderingVars, remoteVars, fieldVars>>

(***************************************************************************)
(* Request context: DatasetMiddleware and TemporalDatasetMiddleware        *)
(***************************************************************************)

\* Dataset schemas: temporal is None or the schema's temporal configuration,
\* a dict with "identifier" and, optionally, "dimensions" (in dict order).
Dimension(key, fields) == [key |-> key, fields |-> fields]

GeldigOp == Dimension("geldigOp", <<"beginGeldigheid", "eindGeldigheid">>)
PeilDatum == Dimension("peilDatum", <<"registratieDatum">>)

DatasetSchemas ==
    { [id |-> "bommen", temporal |-> None],
      [id |-> "wijken", temporal |-> Some([identifier |-> "versie"])],
      [id |-> "buurten",
       temporal |-> Some([identifier |-> "versie", dimensions |-> <<GeldigOp>>])],
      [id |-> "panden",
       temporal |-> Some([identifier |-> "versie",
                          dimensions |-> <<GeldigOp, PeilDatum>>])] }

\* Query parameter names and the value lists a query string can give one name.
Params == {"versie", "geldigOp", "peilDatum"}
ValueLists == { <<"">>, <<"1">>, <<"", "1">>, <<"1", "">>, <<"1", "2">> }
QueryDicts == UNION { [P -> ValueLists] : P \in SUBSET Params }

\* Values the three attributes may hold from an earlier use of the request.
StaleSlice == [key |-> "geldigOp", value |-> "9", fields |-> <<"beginGeldigheid">>]

\* QueryDict.get(key): the last value given for key, None when key is absent.
QueryDict_get(q, key) ==
    IF key \in DOMAIN q THEN Some(q[key][Len(q[key])]) ELSE None

\* Python truth of an optional string: None and "" are false.
Truthy(opt) == opt # None /\ opt[1] # ""

\* hasattr(request, "dataset")
HasDataset(req) == req.dataset # None

\* DatasetMiddleware.process_view
DatasetMiddleware_process_view(req, schema) ==
    IF ~HasDataset(req) /\ schema # None
    THEN [req EXCEPT !.dataset = schema]
    ELSE req

\* The loop over temporal["dimensions"].items(): every dimension whose key has
\* a truthy value overwrites the slice, so the last such dimension stays.
RECURSIVE SliceLoop(_, _, _, _)
SliceLoop(dims, i, query, slice) ==
    IF i > Len(dims) THEN slice
    ELSE LET key == dims[i].key
             fields == dims[i].fields
         IN IF Truthy(QueryDict_get(query, key))
            THEN SliceLoop(dims, i + 1, query,
                           Some([key |-> key,
                                 value |-> QueryDict_get(query, key)[1],
                                 fields |-> fields]))
            ELSE SliceLoop(dims, i + 1, query, slice)

\* process_view without the three assignments it starts with.
ProcessViewWithoutReset(req) ==
    IF ~HasDataset(req) \/ req.dataset[1].temporal = None
    THEN req
    ELSE LET temporal == req.dataset[1].temporal[1]
             ident == temporal.identifier
             r1 == [req EXCEPT !.versioned = TRUE]
             r2 == IF Truthy(QueryDict_get(req.GET, ident))
                   THEN [r1 EXCEPT !.dataset_version =
                                       QueryDict_get(req.GET, ident)]
                   ELSE r1
         IN IF "dimensions" \in DOMAIN temporal
            THEN [r2 EXCEPT !.dataset_temporal_slice =
                     SliceLoop(temporal.dimensions, 1, req.GET,
                               r2.dataset_temporal_slice)]
            ELSE r2

\* process_view recording the version parameter without testing its value.
ProcessViewUntestedVersion(req) ==
    LET reset == [req EXCEPT !.versioned = FALSE,
                             !.dataset_version = None,
                             !.dataset_temporal_slice = None]
    IN IF ~HasDataset(req) \/ req.dataset[1].temporal = None
       THEN reset
       ELSE LET temporal == req.dataset[1].temporal[1]
                ident == temporal.identifier
                r1 == [reset EXCEPT !.versioned = TRUE]
                r2 == [r1 EXCEPT !.dataset_version =
                                     QueryDict_get(req.GET, ident)]
            IN IF "dimensions" \in DOMAIN temporal
               THEN [r2 EXCEPT !.dataset_temporal_slice =
                        SliceLoop(temporal.dimensions, 1, req.GET,
                                  r2.dataset_temporal_slice)]
               ELSE r2

\* TemporalDatasetMiddleware.process_view
TemporalDatasetMiddleware_process_view(req) ==
    LET reset == [req EXCEPT !.versioned = FALSE,
                             !.dataset_version = None,
                             !.dataset_temporal_slice = None]
    IN IF ~HasDataset(req) \/ req.dataset[1].temporal = None
       THEN reset
       ELSE LET temporal == req.dataset[1].temporal[1]
                ident == temporal.identifier
                r1 == [reset EXCEPT !.versioned = TRUE]
                r2 == IF Truthy(QueryDict_get(req.GET, ident))
                      THEN [r1 EXCEPT !.dataset_version =
                                          QueryDict_get(req.GET, ident)]
                      ELSE r1
            IN IF "dimensions" \in DOMAIN temporal
               THEN [r2 EXCEPT !.dataset_temporal_slice =
                        SliceLoop(temporal.dimensions, 1, req.GET,
                                  r2.dataset_temporal_slice)]
               ELSE r2

MwInit ==
    /\ request \in
         [ dataset : {None} \cup { Some(d) : d \in DatasetSchemas },
           GET : QueryDicts,
           versioned : BOOLEAN,
           dataset_version : {None, Some("9")},
           dataset_temporal_slice : {None, Some(StaleSlice)} ]
    /\ view_schema \in {None} \cup { Some(d) : d \in DatasetSchemas }
    /\ mw_pc = "start"
    /\ mw_before = request

MwIdle ==
    /\ request = [dataset |-> None, GET |-> << >>, versioned |-> FALSE,
                  dataset_version |-> None, dataset_temporal_slice |-> None]
    /\ view_schema = None
    /\ mw_pc = "start"
    /\ mw_before = request

DatasetMiddlewareStep ==
    /\ mw_pc = "start"
    /\ request' = DatasetMiddleware_process_view(request, view_schema)
    /\ mw_before' = request'
    /\ mw_pc' = "dataset"
    /\ UNCHANGED view_schema
    /\ MwFrame

TemporalDatasetMiddlewareStep ==
    /\ mw_pc = "dataset"
    /\ request' = TemporalDatasetMiddleware_process_view(request)
    /\ mw_pc' = "done"
    /\ UNCHANGED <<view_schema, mw_before>>
    /\ MwFrame

MwNext == DatasetMiddlewareStep \/ TemporalDatasetMiddlewareStep

(***************************************************************************)
(* Virtual app registry: register_model and VirtualAppConfig               *)
(*                                                                         *)
(* The module takes no lock, so a call is a sequence of steps, one per     *)
(* statement that reads or writes the process-wide state, and the steps of *)
(* concurrent calls interleave.                                            *)
(***************************************************************************)

NThreads == 2
\* register_model calls made in one run, over all threads
MaxCalls == 3

Threads == 1..NThreads
DatasetIds == {"bommen", "afvalwegingen"}
ModelNames == {"containers", "clusters"}
\* An object that is no model class: apps.register_model raises on it.
Malformed == "malformed"

\* The models mapping a VirtualAppConfig holds: its own dict() of __init__,
\* which nothing ever fills, or the dict apps.all_models[label] itself.
ModelsOf(cfg) ==
    IF config_objs[cfg].models = "shared"
    THEN all_models[config_objs[cfg].label]
    ELSE {}

Published == { d \in DatasetIds : app_configs[d] # 0 }

\* What a reader of the registry sees: the models of every published app
\* config, the models registry and the migration settings.
RegistryView ==
    [ app_configs |-> [d \in Published |-> ModelsOf(app_configs[d])],
      all_models |-> all_models,
      migration_modules |-> migration_modules ]

IdleThread ==
    [ pc |-> "idle", dataset_id |-> "", model |-> "", app_config |-> 0,
      calls |-> 0, solo |-> TRUE, before |-> None ]

RECURSIVE CallsMade(_)
CallsMade(n) == IF n = 0 THEN 0 ELSE thr[n].calls + CallsMade(n - 1)

OthersIdle(t) == \A u \in Threads \ {t} : thr[u].pc = "idle"

RegInit ==
    /\ app_configs = [d \in DatasetIds |-> 0]
    /\ all_models = [d \in DatasetIds |-> {}]
    /\ migration_modules \in
         { [kind |-> k, labels |-> {}] : k \in {"absent", "dict", "frozen"} }
    /\ config_objs = << >>
    /\ thr = [t \in Threads |-> IdleThread]
    /\ created = [d \in DatasetIds |-> 0]
    /\ registered = [d \in DatasetIds |-> {}]

RegIdle ==
    /\ app_configs = [d \in DatasetIds |-> 0]
    /\ all_models = [d \in DatasetIds |-> {}]
    /\ migration_modules = [kind |-> "dict", labels |-> {}]
    /\ config_objs = << >>
    /\ thr = [t \in Threads |-> IdleThread]
    /\ created = [d \in DatasetIds |-> 0]
    /\ registered = [d \in DatasetIds |-> {}]

\* register_model(dataset, model) is called: dataset_id = dataset.schema.id
Call(t, d, m) ==
    /\ thr[t].pc = "idle"
    /\ CallsMade(NThreads) < MaxCalls
    /\ thr' = [u \in Threads |->
                 IF u = t
                 THEN [ pc |-> "check", dataset_id |-> d, model |-> m,
                        app_config |-> 0, calls |-> thr[t].calls + 1,
                        solo |-> OthersIdle(t),
                        before |-> Some(RegistryView) ]
                 ELSE [thr[u] EXCEPT !.solo = FALSE]]
    /\ UNCHANGED <<app_configs, all_models, migration_modules, config_objs,
                   created, registered>>
    /\ RegFrame

\* if dataset_id in apps.app_configs: app_config = apps.app_configs[dataset_id]
CheckFound(t) ==
    /\ thr[t].pc = "check"
    /\ app_configs[thr[t].dataset_id] # 0
    /\ thr' = [thr EXCEPT ![t].pc = "apps_register",
                          ![t].app_config = app_configs[thr[t].dataset_id]]
    /\ UNCHANGED <<app_configs, all_models, migration_modules, config_objs,
                   created, registered>>
    /\ RegFrame

\* else: VirtualAppConfig(apps, dataset_id, ...) is entered
CheckMissing(t) ==
    /\ thr[t].pc = "check"
    /\ app_configs[thr[t].dataset_id] = 0
    /\ thr' = [thr EXCEPT ![t].pc = "init"]
    /\ UNCHANGED <<app_configs, all_models, migration_modules, config_objs,
                   created, registered>>
    /\ RegFrame

\* VirtualAppConfig.__init__: super().__init__(); self.models = dict(); ...
InitObject(t) ==
    /\ thr[t].pc = "init"
    /\ config_objs' = Append(config_objs,
                             [label |-> thr[t].dataset_id, models |-> "own"])
    /\ created' = [created EXCEPT ![thr[t].dataset_id] = @ + 1]
    /\ thr' = [thr EXCEPT ![t].pc = "publish",
                          ![t].app_config = Len(config_objs) + 1]
    /\ UNCHANGED <<app_configs, all_models, migration_modules, registered>>
    /\ RegFrame

\* VirtualAppConfig.__init__: apps.app_configs[self.label] = self
Publish(t) ==
    /\ thr[t].pc = "publish"
    /\ app_configs' = [app_configs EXCEPT ![thr[t].dataset_id] =
                                              thr[t].app_config]
    /\ thr' = [thr EXCEPT ![t].pc = "migration_init"]
    /\ UNCHANGED <<all_models, migration_modules, config_objs, created,
                   registered>>
    /\ RegFrame

\* VirtualAppConfig.__init__: if not hasattr(settings, "MIGRATION_MODULES"):
\*     settings.MIGRATION_MODULES = dict()
MigrationInit(t) ==
    /\ thr[t].pc = "migration_init"
    /\ migration_modules' =
         IF migration_modules.kind = "absent"
         THEN [kind |-> "dict", labels |-> {}]
         ELSE migration_modules
    /\ thr' = [thr EXCEPT ![t].pc = "migration_set"]
    /\ UNCHANGED <<app_configs, all_models, config_objs, created, registered>>
    /\ RegFrame

\* VirtualAppConfig.__init__: try: settings.MIGRATION_MODULES[self.label] = None
\* except TypeError: a warning is logged
MigrationSet(t) ==
    /\ thr[t].pc = "migration_set"
    /\ migration_modules' =
         IF migration_modules.kind = "dict"
         THEN [migration_modules EXCEPT !.labels = @ \cup {thr[t].dataset_id}]
         ELSE migration_modules
    /\ thr' = [thr EXCEPT ![t].pc = "apps_register"]
    /\ UNCHANGED <<app_configs, all_models, config_objs, created, registered>>
    /\ RegFrame

\* VirtualAppConfig.register_model: self.apps.register_model(self.label, model)
AppsRegister(t) ==
    /\ thr[t].pc = "apps_register"
    /\ thr[t].model # Malformed
    /\ all_models' = [all_models EXCEPT
                        ![config_objs[thr[t].app_config].label] =
                            @ \cup {thr[t].model}]
    /\ thr' = [thr EXCEPT ![t].pc = "assign"]
    /\ UNCHANGED <<app_configs, migration_modules, config_objs, created,
                   registered>>
    /\ RegFrame

\* VirtualAppConfig.register_model: self.apps.register_model raises
AppsRegisterRaises(t) ==
    /\ thr[t].pc = "apps_register"
    /\ thr[t].model = Malformed
    /\ thr' = [thr EXCEPT ![t].pc = "raised"]
    /\ UNCHANGED <<app_configs, all_models, migration_modules, config_objs,
                   created, registered>>
    /\ RegFrame

\* VirtualAppConfig.register_model: self.models = self.apps.all_models[self.label]
AssignModels(t) ==
    /\ thr[t].pc = "assign"
    /\ config_objs' = [config_objs EXCEPT ![thr[t].app_config].models = "shared"]
    /\ thr' = [thr EXCEPT ![t].pc = "return"]
    /\ UNCHANGED <<app_configs, all_models, migration_modules, created,
                   registered>>
    /\ RegFrame

\* register_model returns
Return(t) ==
    /\ thr[t].pc = "return"
    /\ registered' = [registered EXCEPT ![thr[t].dataset_id] =
                                            @ \cup {thr[t].model}]
    /\ thr' = [thr EXCEPT ![t].pc = "idle", ![t].before = None]
    /\ UNCHANGED <<app_configs, all_models, migration_modules, config_objs,
                   created>>
    /\ RegFrame

\* the exception leaves register_model
Propagate(t) ==
    /\ thr[t].pc = "raised"
    /\ thr' = [thr EXCEPT ![t].pc = "idle", ![t].before = None]
    /\ UNCHANGED <<app_configs, all_models, migration_modules, config_objs,
                   created, registered>>
    /\ RegFrame

RegNext ==
    \E t \in Threads :
        \/ \E d \in DatasetIds, m \in ModelNames \cup {Malformed} : Call(t, d, m)
        \/ CheckFound(t)
        \/ CheckMissing(t)
        \/ InitObject(t)
        \/ Publish(t)
        \/ MigrationInit(t)
        \/ MigrationSet(t)
        \/ AppsRegister(t)
        \/ AppsRegisterRaises(t)
        \/ AssignModels(t)
        \/ Return(t)
        \/ Propagate(t)

(***************************************************************************)
(* Router: build, reload, clear_urls, resolve and dispatch                 *)
(***************************************************************************)

NRequests == 2
MaxReloads == 2

Requests == 1..NRequests

\* The resources a schema can register, in the order routes are built.
ResourceOrder ==
    << <<"bommen", "bommen">>,
       <<"afvalwegingen", "containers">> >>
Resources == { ResourceOrder[i] : i \in 1..Len(ResourceOrder) }

RootUrl == << "v1" >>
ListUrl(res) == << "v1", res[1], res[2] >>
Urls == {RootUrl} \cup { ListUrl(res) : res \in Resources }

RootRoute == [name |-> "api-root", url |-> RootUrl, resource |-> None]
ListRoute(res) == [name |-> "list", url |-> ListUrl(res), resource |-> Some(res)]
DetailRoute(res) ==
    [name |-> "detail", url |-> ListUrl(res) \o <<"pk">>, resource |-> Some(res)]

\* Router.build(snapshot): the root listing, then the list and detail
\* endpoints of every resource of the snapshot.
RECURSIVE BuildFrom(_, _)
BuildFrom(snapshot, i) ==
    IF i > Len(ResourceOrder) THEN << >>
    ELSE (IF ResourceOrder[i] \in snapshot
          THEN << ListRoute(ResourceOrder[i]), DetailRoute(ResourceOrder[i]) >>
          ELSE << >>) \o BuildFrom(snapshot, i + 1)

Build(snapshot) == << RootRoute >> \o BuildFrom(snapshot, 1)

\* reload() that adds the new routes to the published table.
ReloadKeepingOld(old, snapshot) == old \o BuildFrom(snapshot, 1)

\* reload(): a brand-new table replaces the published one.
ReloadedTable(old, snapshot) == Build(snapshot)

\* Router.resolve: the first route of the table that matches the path.
RECURSIVE ResolveFrom(_, _, _)
ResolveFrom(table, url, i) ==
    IF i > Len(table) THEN None
    ELSE IF table[i].url = url THEN Some(table[i])
    ELSE ResolveFrom(table, url, i + 1)

Resolve(table, url) == ResolveFrom(table, url, 1)

\* A view that serves whatever was resolved.
StaleViewStatus(gen, live) == 200

\* The view of a generation serves while that generation is live; a view
\* whose routes were cleared or replaced answers not-found.
ViewStatus(gen, live) == IF gen = live THEN 200 ELSE 404

\* Resolve and execute in one go, against the state as it is now.
Dispatch(url) ==
    LET match == Resolve(routing_table, url)
    IN IF match = None THEN 404
       ELSE IF match[1].resource = None THEN 200
       ELSE ViewStatus(generation, live_generation)

NewRequest ==
    [ pc |-> "new", url |-> RootUrl, target |-> None, gen |-> 0, status |-> 0,
      cleared_since |-> FALSE ]

RouterInit ==
    /\ registry = {}
    /\ routing_table = Build({})
    /\ generation = 0
    /\ live_generation = 0
    /\ reqs = [r \in Requests |-> NewRequest]
    /\ last_loaded = {}

\* Registry.register(datasetId, resourceDefinition)
Register(res) ==
    /\ res \notin registry
    /\ registry' = registry \cup {res}
    /\ UNCHANGED <<routing_table, generation, live_generation, reqs, last_loaded>>
    /\ RouterFrame

\* Registry.unregister(datasetId)
Unregister(dataset) ==
    /\ \E res \in registry : res[1] = dataset
    /\ registry' = { res \in registry : res[1] # dataset }
    /\ UNCHANGED <<routing_table, generation, live_generation, reqs, last_loaded>>
    /\ RouterFrame

\* router.reload()
Reload ==
    /\ generation < MaxReloads
    /\ routing_table' = ReloadedTable(routing_table, registry)
    /\ generation' = generation + 1
    /\ live_generation' = generation + 1
    /\ last_loaded' = registry
    /\ UNCHANGED <<registry, reqs>>
    /\ RouterFrame

\* router.clear_urls()
ClearUrls ==
    /\ routing_table' = Build({})
    /\ live_generation' = 0
    /\ last_loaded' = {}
    /\ reqs' = [r \in Requests |->
                  IF reqs[r].pc = "resolved"
                  THEN [reqs[r] EXCEPT !.cleared_since = TRUE]
                  ELSE reqs[r]]
    /\ UNCHANGED <<registry, generation>>
    /\ RouterFrame

\* URL resolving of a request: not-found, the root listing, or a view of the
\* current generation that is yet to be executed.
ResolveRequest(r, url) ==
    /\ reqs[r].pc = "new"
    /\ LET match == Resolve(routing_table, url)
       IN reqs' = [reqs EXCEPT ![r] =
            IF match = None
            THEN [@ EXCEPT !.pc = "done", !.url = url, !.status = 404]
            ELSE IF match[1].resource = None
            THEN [@ EXCEPT !.pc = "done", !.url = url, !.target = match,
                           !.status = 200]
            ELSE [@ EXCEPT !.pc = "resolved", !.url = url, !.target = match,
                           !.gen = generation]]
    /\ UNCHANGED <<registry, routing_table, generation, live_generation,
                   last_loaded>>
    /\ RouterFrame

\* The resolved view runs.
ExecuteRequest(r) ==
    /\ reqs[r].pc = "resolved"
    /\ reqs' = [reqs EXCEPT ![r].pc = "done",
                            ![r].status = ViewStatus(reqs[r].gen, live_generation)]
    /\ UNCHANGED <<registry, routing_table, generation, live_generation,
                   last_loaded>>
    /\ RouterFrame

RouterNext ==
    \/ \E res \in Resources : Register(res)
    \/ \E res \in Resources : Unregister(res[1])
    \/ Reload
    \/ ClearUrls
    \/ \E r \in Requests, url \in Urls : ResolveRequest(r, url)
    \/ \E r \in Requests : ExecuteRequest(r)

\* ---- the claims about the router ----

RouteKeys(table) ==
    { <<table[i].name, table[i].resource>> : i \in 1..Len(table) }

\* C5: after any sequence of reload and clear operations the published
\* routes are the API root plus the routes of the resources registered at the
\* most recent reload (none after a clear): the root always answers 200, the
\* listing URL of a resource answers 200 when the resource was registered at
\* that reload and 404 otherwise.
C5_RoutesFollowLatestReload ==
    /\ RouteKeys(routing_table) =
         {<<"api-root", None>>}
         \cup { <<k, Some(res)>> : k \in {"list", "detail"}, res \in last_loaded }
    /\ Dispatch(RootUrl) = 200
    /\ \A res \in Resources :
         Dispatch(ListUrl(res)) = IF res \in last_loaded THEN 200 ELSE 404

\* A second reload, made after the resource that the first one published was
\* unregistered: its listing URL, valid before, is gone.
C5_Witness ==
    /\ generation = 2
    /\ registry = {}
    /\ last_loaded = {}
    /\ live_generation = 2
    /\ \E r \in Requests :
         /\ reqs[r].pc = "done"
         /\ reqs[r].target # None
         /\ reqs[r].url # RootUrl
         /\ reqs[r].status = 200
         /\ Dispatch(reqs[r].url) = 404

\* C4: a request that resolved a listing view against the old routing table
\* and executes it only after clear_urls gets 404, never 200.
C4_ClearedViewIsNotFound ==
    \A r \in Requests :
        (reqs[r].pc = "done" /\ reqs[r].cleared_since) => reqs[r].status = 404

C4_Witness ==
    \E r \in Requests :
        /\ reqs[r].pc = "done"
        /\ reqs[r].cleared_since
        /\ reqs[r].target # None
        /\ reqs[r].target[1].name = "list"
        /\ reqs[r].status = 404

(***************************************************************************)
(* Authorization: scopes on datasets, tables, fields and relations         *)
(***************************************************************************)

NRows == 2

Scopes == {"BAG/R", "BRK/RSN"}
AuthTables == {"containers", "clusters"}
TableFields ==
    [ containers |-> {"id", "eigenaarNaam", "datumCreatie"},
      clusters |-> {"id", "status"} ]
\* The fields of "containers" a schema change can put a scope on.
ProtectableFields == {"eigenaarNaam", "datumCreatie"}
\* The relations of a table: the relation's name and its target table.
Relations ==
    [ containers |-> { [name |-> "cluster", target |-> "clusters"] },
      clusters |-> {} ]

\* The rows of the store; datumCreatie of the second row is NULL.
StoredRow(table, i) ==
    IF table = "containers"
    THEN [ id |-> Some(i), eigenaarNaam |-> Some("Dataservices"),
           datumCreatie |-> IF i = 2 THEN None ELSE Some("2021-01-03") ]
    ELSE [ id |-> Some(i), status |-> Some("valid") ]

\* The profiles that can be created: the scopes a profile is for and the
\* fields of "containers" it grants read access to.
ProfileCandidates ==
    { [name |-> "brk_readall", scopes |-> {"BRK/RSN"}, fields |-> {"eigenaarNaam"}],
      [name |-> "bag_dates", scopes |-> {"BAG/R"}, fields |-> {"datumCreatie"}] }

\* _expand / _expandScope of a request: all relations, or the named ones.
ExpandNone == [all |-> FALSE, named |-> {}]
ExpandAll == [all |-> TRUE, named |-> {}]
ExpandScope(names) == [all |-> FALSE, named |-> names]
ExpandOptions(table) ==
    {ExpandNone, ExpandAll}
    \cup { ExpandScope({rel.name}) : rel \in Relations[table] }

\* request.is_authorized_for(scope): a scope that is set must be held.
IsAuthorizedFor(auth, scopes) == auth = None \/ auth[1] \in scopes

\* A permission check that looks at the dataset's scope only.
HasDatasetScopeOnly(table, scopes) == IsAuthorizedFor(dataset_auth, scopes)

\* The permission check of a view: the dataset's and the table's scope.
HasPermission(table, scopes) ==
    /\ IsAuthorizedFor(dataset_auth, scopes)
    /\ IsAuthorizedFor(table_auth[table], scopes)

\* A profile applies to a caller who holds its scopes.
ProfileGrants(table, field, scopes) ==
    \E p \in profiles :
        /\ p.scopes \subseteq scopes
        /\ table = "containers"
        /\ field \in p.fields

FieldScope(table, field) ==
    IF table = "containers" /\ field \in ProtectableFields
    THEN field_auth[field]
    ELSE None

FieldAllowed(table, field, scopes) ==
    \/ IsAuthorizedFor(FieldScope(table, field), scopes)
    \/ ProfileGrants(table, field, scopes)

\* A serializer that keeps a field the caller may not read, with a null value.
NulledRowPayload(row, table, scopes) ==
    [ f \in DOMAIN row |-> IF FieldAllowed(table, f, scopes) THEN row[f] ELSE None ]

\* The serializer's representation of a row: the fields the caller may read.
RowPayload(row, table, scopes) ==
    [ f \in { g \in DOMAIN row : FieldAllowed(table, g, scopes) } |-> row[f] ]

RelationAllowed(rel, scopes) == HasPermission(rel.target, scopes)

\* An expansion check that also refuses _expand=true on a protected relation.
ExpandRefusedAlways(table, expand, scopes) ==
    \E rel \in Relations[table] :
        /\ expand.all \/ rel.name \in expand.named
        /\ ~RelationAllowed(rel, scopes)

\* A relation named in _expandScope that the caller may not read refuses the
\* request; _expand=true refuses nothing.
ExpandRefused(table, expand, scopes) ==
    \E rel \in Relations[table] :
        /\ rel.name \in expand.named
        /\ ~RelationAllowed(rel, scopes)

\* The relations that end up in _embedded.
Expanded(table, expand, scopes) ==
    { rel.name : rel \in
        { x \in Relations[table] :
            /\ expand.all \/ x.name \in expand.named
            /\ RelationAllowed(x, scopes) } }

\* GET on the list or detail endpoint of a table.
HandleGet(table, kind, scopes, expand) ==
    LET asked == [ table |-> table, kind |-> kind, scopes |-> scopes,
                   expand |-> expand ]
        denied == [ asked |-> asked, status |-> 403, rows |-> << >>,
                    embedded |-> {}, rows_read |-> FALSE ]
        n == IF kind = "list" THEN NRows ELSE 1
    IN IF ~HasPermission(table, scopes) THEN denied
       ELSE IF ExpandRefused(table, expand, scopes) THEN denied
       ELSE [ asked |-> asked,
              status |-> 200,
              rows |-> [ i \in 1..n |->
                           RowPayload(StoredRow(table, i), table, scopes) ],
              embedded |-> (IF kind = "list" THEN {table} ELSE {})
                           \cup Expanded(table, expand, scopes),
              rows_read |-> TRUE ]

OptionalScope == {None} \cup { Some(sc) : sc \in Scopes }

AuthInit ==
    /\ dataset_auth = None
    /\ table_auth = [t \in AuthTables |-> None]
    /\ field_auth = [f \in ProtectableFields |-> None]
    /\ profiles = {}
    /\ response = None

\* models.Dataset.objects.filter(name="afvalwegingen").update(auth=...)
UpdateDatasetAuth(auth) ==
    /\ dataset_auth # auth
    /\ dataset_auth' = auth
    /\ response' = None
    /\ UNCHANGED <<table_auth, field_auth, profiles>>
    /\ AuthFrame

\* models.DatasetTable.objects.filter(name=...).update(auth=...)
UpdateTableAuth(table, auth) ==
    /\ table_auth[table] # auth
    /\ table_auth' = [table_auth EXCEPT ![table] = auth]
    /\ response' = None
    /\ UNCHANGED <<dataset_auth, field_auth, profiles>>
    /\ AuthFrame

\* models.DatasetField.objects.filter(name=...).update(auth=...)
UpdateFieldAuth(field, auth) ==
    /\ field_auth[field] # auth
    /\ field_auth' = [field_auth EXCEPT ![field] = auth]
    /\ response' = None
    /\ UNCHANGED <<dataset_auth, table_auth, profiles>>
    /\ AuthFrame

\* models.Profile.objects.create(...)
CreateProfile(p) ==
    /\ p \notin profiles
    /\ profiles' = profiles \cup {p}
    /\ response' = None
    /\ UNCHANGED <<dataset_auth, table_auth, field_auth>>
    /\ AuthFrame

\* api_client.get(url, HTTP_AUTHORIZATION=token)
Get(table, kind, scopes, expand) ==
    /\ response' = Some(HandleGet(table, kind, scopes, expand))
    /\ UNCHANGED <<dataset_auth, table_auth, field_auth, profiles>>
    /\ AuthFrame

AuthNext ==
    \/ \E auth \in OptionalScope : UpdateDatasetAuth(auth)
    \/ \E table \in AuthTables, auth \in OptionalScope : UpdateTableAuth(table, auth)
    \/ \E field \in ProtectableFields, auth \in OptionalScope :
           UpdateFieldAuth(field, auth)
    \/ \E p \in ProfileCandidates : CreateProfile(p)
    \/ \E table \in AuthTables, kind \in {"list", "detail"},
          scopes \in SUBSET Scopes :
           \E expand \in ExpandOptions(table) : Get(table, kind, scopes, expand)

\* ---- the claims about authorization ----

Answered == response # None
Resp == response[1]
Asked == response[1].asked

\* The dataset or the table of the endpoint carries a scope the caller lacks.
EndpointScopeMissing ==
    \/ dataset_auth # None /\ dataset_auth[1] \notin Asked.scopes
    \/ table_auth[Asked.table] # None
         /\ table_auth[Asked.table][1] \notin Asked.scopes

\* The target table of the relation carries a scope the caller lacks.
TargetScopeMissing(rel) ==
    table_auth[rel.target] # None /\ table_auth[rel.target][1] \notin Asked.scopes

\* The request names, in _expandScope, a relation whose target table carries
\* a scope the caller lacks.
NamesProtectedRelation ==
    \E rel \in Relations[Asked.table] :
        rel.name \in Asked.expand.named /\ TargetScopeMissing(rel)

\* C1 (as stated): a GET on a list or detail endpoint returns 403 exactly
\* when the dataset or the table of that endpoint carries a scope that is not
\* in the caller's scope set, and 200 otherwise.
C1_Original ==
    Answered =>
        /\ Resp.status = 403 <=> EndpointScopeMissing
        /\ Resp.status = 200 <=> ~EndpointScopeMissing

\* C1 (amended): a GET on a list or detail endpoint returns 403, without
\* reading any row, exactly when the dataset or the table of that endpoint
\* carries a scope that is not in the caller's scope set or the request names
\* in _expandScope a relation whose target table carries such a scope; every
\* other GET returns 200, so a scope on a sibling table does not affect a
\* request that does not name a relation to it in _expandScope.
C1_ScopeDenies ==
    Answered =>
        /\ Resp.status = 403 <=> (EndpointScopeMissing \/ NamesProtectedRelation)
        /\ Resp.status = 403 => ~Resp.rows_read /\ Resp.rows = << >>
        /\ Resp.status = 200 <=> ~(EndpointScopeMissing \/ NamesProtectedRelation)

\* The containers listing answers 200 to a caller without scopes while the
\* sibling table clusters carries a scope.
C1_Witness ==
    /\ Answered
    /\ Asked.table = "containers"
    /\ Asked.scopes = {}
    /\ Asked.expand = ExpandNone
    /\ dataset_auth = None
    /\ table_auth["containers"] = None
    /\ table_auth["clusters"] = Some("BAG/R")
    /\ Resp.status = 200
    /\ Resp.rows_read

\* A profile created for scopes the caller holds grants read access.
GrantedByProfile(field) ==
    \E p \in profiles : p.scopes \subseteq Asked.scopes /\ field \in p.fields

\* C2: in every 200 listing response a field whose scope is not in the
\* caller's scope set is absent from every row (not present with null),
\* unless a profile matching the caller's scopes grants read access to it;
\* a field whose scope the caller holds, or that such a profile grants, is
\* present in every row.
C2_UnauthorizedFieldAbsent ==
    (Answered /\ Resp.status = 200 /\ Asked.kind = "list"
        /\ Asked.table = "containers") =>
        \A f \in ProtectableFields :
            field_auth[f] # None =>
                LET readable == \/ field_auth[f][1] \in Asked.scopes
                                \/ GrantedByProfile(f)
                IN \A i \in 1..Len(Resp.rows) :
                       f \in DOMAIN Resp.rows[i] <=> readable

\* A listing where eigenaarNaam is left out for want of its scope, while
\* datumCreatie is shown, with its stored NULL, through a profile.
C2_Witness ==
    /\ Answered /\ Resp.status = 200 /\ Asked.kind = "list"
    /\ Asked.table = "containers"
    /\ field_auth["eigenaarNaam"] = Some("BRK/RSN")
    /\ field_auth["datumCreatie"] = Some("BRK/RSN")
    /\ Asked.scopes = {"BAG/R"}
    /\ Len(Resp.rows) = NRows
    /\ "eigenaarNaam" \notin DOMAIN Resp.rows[1]
    /\ "datumCreatie" \in DOMAIN Resp.rows[2]
    /\ Resp.rows[2]["datumCreatie"] = None

\* C3: for a relation whose target table requires a scope the caller lacks,
\* on a listing the caller may read: _expand=true returns 200 and leaves the
\* relation out of _embedded, naming the relation in _expandScope returns
\* 403; when the caller holds the scopes, _expand=true puts the relation in
\* _embedded.
C3_ExpandAsymmetry ==
    (Answered /\ Asked.kind = "list") =>
        \A rel \in Relations[Asked.table] :
            /\ (TargetScopeMissing(rel) /\ rel.name \in Asked.expand.named) =>
                   Resp.status = 403
            /\ (TargetScopeMissing(rel) /\ Asked.expand.all
                  /\ ~EndpointScopeMissing) =>
                   Resp.status = 200 /\ rel.name \notin Resp.embedded
            /\ (~TargetScopeMissing(rel) /\ Asked.expand.all
                  /\ ~EndpointScopeMissing) =>
                   Resp.status = 200 /\ rel.name \in Resp.embedded

\* _expand=true on the containers listing, clusters being protected and the
\* caller without scopes: 200, and no cluster in _embedded.
C3_Witness ==
    /\ Answered /\ Asked.kind = "list" /\ Asked.table = "containers"
    /\ table_auth["clusters"] = Some("BAG/R")
    /\ Asked.scopes = {}
    /\ Asked.expand = ExpandAll
    /\ Resp.status = 200
    /\ Resp.embedded = {"containers"}

\* ---- the claims about the registry ----

InCall(t) == thr[t].pc # "idle"
AllIdle == \A t \in Threads : thr[t].pc = "idle"

\* The registry a call of register_model(d, m) is to leave, given the
\* registry b it started from: the app config of d holds the models of d with
\* m added, and a newly created app config has its migrations disabled.
ExpectedAfter(b, d, m) ==
    LET isNew == d \notin DOMAIN b.app_configs
        mig == b.migration_modules
    IN [ app_configs |->
           [x \in DOMAIN b.app_configs \cup {d} |->
              IF x = d THEN b.all_models[d] \cup {m} ELSE b.app_configs[x]],
         all_models |-> [b.all_models EXCEPT ![d] = @ \cup {m}],
         migration_modules |->
           IF isNew /\ mig.kind # "frozen"
           THEN [kind |-> "dict", labels |-> mig.labels \cup {d}]
           ELSE mig ]

\* C6: while register_model runs for a dataset (and no other call does), the
\* registry a concurrent reader can observe is the registry before the call
\* or the registry after the call, never a state in between.
C6_ReadersSeeOldOrNew ==
    \A t \in Threads :
        (InCall(t) /\ thr[t].solo /\ thr[t].model # Malformed) =>
            RegistryView \in
                { thr[t].before[1],
                  ExpectedAfter(thr[t].before[1], thr[t].dataset_id,
                                thr[t].model) }

\* C7: under any interleaving of register_model calls, at most one
\* VirtualAppConfig is ever created for a dataset id, and once all calls have
\* finished a dataset with registered models has exactly one, published
\* under its id and holding every model that was registered.
C7_ExclusiveRegistration ==
    /\ \A d \in DatasetIds : created[d] <= 1
    /\ AllIdle =>
         \A d \in DatasetIds :
             registered[d] # {} =>
                 /\ created[d] = 1
                 /\ d \in Published
                 /\ registered[d] \subseteq ModelsOf(app_configs[d])

\* C8: when the model registration raises (and no other call runs), the
\* registry is as it was before the call: no app config and no
\* migration-module entry has been added.
C8_FailureLeavesRegistry ==
    \A t \in Threads :
        (thr[t].pc = "raised" /\ thr[t].solo) =>
            RegistryView = thr[t].before[1]

(***************************************************************************)
(* Claims about the request context                                        *)
(***************************************************************************)

IsTemporal(req) == HasDataset(req) /\ req.dataset[1].temporal # None

\* The dimensions a dataset declares (none without a "dimensions" entry).
DeclaredDimensions(req) ==
    LET temporal == req.dataset[1].temporal[1]
    IN IF "dimensions" \in DOMAIN temporal
       THEN { temporal.dimensions[i] : i \in 1..Len(temporal.dimensions) }
       ELSE {}

Present(q, key) == key \in DOMAIN q
LiteralValue(q, key) == q[key][Len(q[key])]
PresentNonEmpty(q, key) == Present(q, key) /\ LiteralValue(q, key) # ""

\* C9: after TemporalDatasetMiddleware.process_view, a request without a
\* dataset or with a non-temporal dataset has versioned false and both
\* dataset_version and dataset_temporal_slice null, whatever the query and
\* whatever the attributes held before; versioned is true exactly when the
\* request's dataset is temporal.
C9_NonTemporalStaysNull ==
    mw_pc = "done" =>
        /\ ~IsTemporal(request) =>
              /\ request.versioned = FALSE
              /\ request.dataset_version = None
              /\ request.dataset_temporal_slice = None
        /\ request.versioned = TRUE <=> IsTemporal(request)

\* A non-temporal dataset, queried with a version and a dimension parameter,
\* on a request whose three attributes held stale values before the call.
C9_Witness ==
    /\ mw_pc = "done"
    /\ HasDataset(request) /\ ~IsTemporal(request)
    /\ PresentNonEmpty(request.GET, "versie")
    /\ PresentNonEmpty(request.GET, "geldigOp")
    /\ mw_before.versioned = TRUE
    /\ mw_before.dataset_version # None
    /\ mw_before.dataset_temporal_slice # None
    /\ request.dataset_version = None

\* The slice names a declared dimension whose key satisfies Given, with that
\* parameter's literal value and that dimension's fields; null when no
\* declared dimension's key satisfies Given.
SliceRecorded(req, Given(_, _)) ==
    LET hits == { d \in DeclaredDimensions(req) : Given(req.GET, d.key) }
    IN IF hits = {}
       THEN req.dataset_temporal_slice = None
       ELSE /\ req.dataset_temporal_slice # None
            /\ \E d \in hits :
                  req.dataset_temporal_slice[1] =
                      [key |-> d.key,
                       value |-> LiteralValue(req.GET, d.key),
                       fields |-> d.fields]

VersionRecorded(req, Given(_, _)) ==
    LET ident == req.dataset[1].temporal[1].identifier
    IN req.dataset_version =
           IF Given(req.GET, ident)
           THEN Some(LiteralValue(req.GET, ident))
           ELSE None

\* C10 (as stated): for a temporal dataset, dataset_version is the value of
\* the identifier parameter whenever that parameter is present, and the slice
\* is recorded whenever a declared dimension key is present.
C10_Original ==
    (mw_pc = "done" /\ IsTemporal(request)) =>
        /\ VersionRecorded(request, Present)
        /\ SliceRecorded(request, Present)

\* C10 (amended): for a temporal dataset, dataset_version is the value of the
\* identifier parameter whenever that parameter is present with a non-empty
\* value (null otherwise), and the slice is recorded whenever a declared
\* dimension key is present with a non-empty value: its key is such a key,
\* its value that parameter's literal value, its fields that dimension's
\* backing field list (null when there is no such key).
C10_RecordsNonEmpty ==
    (mw_pc = "done" /\ IsTemporal(request)) =>
        /\ VersionRecorded(request, PresentNonEmpty)
        /\ SliceRecorded(request, PresentNonEmpty)

\* A temporal dataset with two dimensions, both given, and a version given.
C10_Witness ==
    /\ mw_pc = "done"
    /\ IsTemporal(request)
    /\ Cardinality(DeclaredDimensions(request)) = 2
    /\ request.dataset_version = Some("1")
    /\ request.dataset_temporal_slice # None
    /\ request.dataset_temporal_slice[1].key = "peilDatum"
    /\ PresentNonEmpty(request.GET, "geldigOp")

(***************************************************************************)
(* Filters and ordering: rest_framework_dso/filters.py                     *)
(*                                                                         *)
(* Text is a sequence of one-character strings.  A filter call is applied  *)
(* to a table holding every row the bounds allow, and its result is the    *)
(* set of rows the generated predicate selects, evaluated with the store's *)
(* three-valued logic.                                                     *)
(***************************************************************************)

MaxPatternLen == 2
MaxTextLen == 2

\* No filter call made yet; every call below is made in this state.
NoCall == [op |-> "none", args |-> None, result |-> None]
FilterIdle == filter_call = NoCall

\* The store's truth values: NULL is the unknown one.
SqlTrue == "TRUE"
SqlFalse == "FALSE"
SqlNull == "NULL"
SqlBool(b) == IF b THEN SqlTrue ELSE SqlFalse
SqlOr(a, b) ==
    IF a = SqlTrue \/ b = SqlTrue THEN SqlTrue
    ELSE IF a = SqlNull \/ b = SqlNull THEN SqlNull
    ELSE SqlFalse
SqlAnd(a, b) ==
    IF a = SqlFalse \/ b = SqlFalse THEN SqlFalse
    ELSE IF a = SqlNull \/ b = SqlNull THEN SqlNull
    ELSE SqlTrue
SqlNot(a) ==
    IF a = SqlNull THEN SqlNull ELSE SqlBool(a = SqlFalse)
\* WHERE keeps the rows whose predicate is TRUE.
Selected(truth) == truth = SqlTrue

\* ---- Wildcard lookup ----

TextChars == {"a", "*", "?", "%", "_", "\\"}
TextsUpTo(n) == UNION { [1..k -> TextChars] : k \in 0..n }
WildcardInputs == TextsUpTo(MaxPatternLen)
TextRows == TextsUpTo(MaxTextLen)

\* str.replace(old, new) for a one-character old.
RECURSIVE str_replace(_, _, _)
str_replace(s, old, new) ==
    IF s = <<>> THEN <<>>
    ELSE (IF Head(s) = old THEN new ELSE <<Head(s)>>)
             \o str_replace(Tail(s), old, new)

\* get_db_prep_lookup without the escaping of "%" and "_".
WildcardUnescaped(value) ==
    LET v1 == str_replace(value, "\\", <<"\\", "\\">>)
        v4 == str_replace(v1, "*", <<"%">>)
    IN str_replace(v4, "?", <<"_">>)

\* Wildcard.get_db_prep_lookup: the chain of replace calls, in its order.
Wildcard_get_db_prep_lookup(value) ==
    LET v1 == str_replace(value, "\\", <<"\\", "\\">>)
        v2 == str_replace(v1, "%", <<"\\", "%">>)
        v3 == str_replace(v2, "_", <<"\\", "_">>)
        v4 == str_replace(v3, "*", <<"%">>)
    IN str_replace(v4, "?", <<"_">>)

\* text LIKE pattern, the backslash being the escape character; a pattern
\* ending in a lone backslash is an error of the store and selects nothing.
RECURSIVE Like(_, _)
Like(text, pattern) ==
    IF pattern = <<>> THEN text = <<>>
    ELSE IF Head(pattern) = "\\"
    THEN /\ Len(pattern) > 1
         /\ text # <<>>
         /\ Head(text) = pattern[2]
         /\ Like(Tail(text), Tail(Tail(pattern)))
    ELSE IF Head(pattern) = "%"
    THEN \/ Like(text, Tail(pattern))
         \/ text # <<>> /\ Like(Tail(text), pattern)
    ELSE IF Head(pattern) = "_"
    THEN text # <<>> /\ Like(Tail(text), Tail(pattern))
    ELSE /\ text # <<>>
         /\ Head(text) = Head(pattern)
         /\ Like(Tail(text), Tail(pattern))

\* Wildcard.as_sql: lhs LIKE rhs over the rows.
Wildcard_as_sql(rows, value) ==
    { r \in rows : Like(r, Wildcard_get_db_prep_lookup(value)) }

ApplyWildcard ==
    /\ FilterIdle
    /\ \E value \in WildcardInputs :
          filter_call' = [op |-> "wildcard",
                          args |-> [value |-> value],
                          result |-> Wildcard_as_sql(TextRows, value)]
    /\ FilterFrame

\* What the input means: "*" any run of characters, "?" any one character,
\* every other character itself.
RECURSIVE GlobMatch(_, _)
GlobMatch(text, input) ==
    IF input = <<>> THEN text = <<>>
    ELSE IF Head(input) = "*"
    THEN \/ GlobMatch(text, Tail(input))
         \/ text # <<>> /\ GlobMatch(Tail(text), input)
    ELSE IF Head(input) = "?"
    THEN text # <<>> /\ GlobMatch(Tail(text), Tail(input))
    ELSE /\ text # <<>>
         /\ Head(text) = Head(input)
         /\ GlobMatch(Tail(text), Tail(input))

HasChar(s, c) == \E i \in 1..Len(s) : s[i] = c

\* C11: the LIKE pattern generated from a wildcard input selects exactly the
\* rows the input matches with "*" as any run of characters, "?" as any one
\* character and every other character ("%", "_" and the backslash included)
\* as itself.
C11_WildcardMatchesGlob ==
    filter_call.op = "wildcard" =>
        filter_call.result =
            { r \in TextRows : GlobMatch(r, filter_call.args.value) }

\* An input with a literal "%" and a "*": it selects a row with a "%" and
\* leaves out a row that has another character in the place of the "%".
C11_Witness ==
    /\ filter_call.op = "wildcard"
    /\ filter_call.args.value = <<"%", "*">>
    /\ <<"%", "a">> \in filter_call.result
    /\ <<"a", "a">> \notin filter_call.result


\* ---- NotEqual lookup ----

\* The values of a column: NULL is None, a stored value v is Some(v).
FieldValues == {"x", "y"}
NullableRows == {None} \cup { Some(v) : v \in FieldValues }
ColumnRows(nullable) == IF nullable THEN NullableRows ELSE NullableRows \ {None}

SqlIsNull(a) == SqlBool(a = None)
SqlEq(a, b) == IF a = None \/ b = None THEN SqlNull ELSE SqlBool(a = b)
SqlNe(a, b) == SqlNot(SqlEq(a, b))

\* process_rhs for a plain value: the placeholder and the value as parameter.
process_rhs(value) == [sql |-> Some("%s"), params |-> <<value>>]

\* as_sql comparing in every case.
NotEqualPlain(lhs_nullable, value) == "ne"

\* NotEqual.as_sql: which of its three SQL texts it returns.
NotEqual_as_sql(lhs_nullable, value) ==
    LET rhs == process_rhs(value).sql
        rhs_params == process_rhs(value).params
    IN IF lhs_nullable /\ rhs # None
       THEN "is_null_or_ne"                 \* (lhs IS NULL OR lhs != rhs)
       ELSE IF rhs_params # <<>> /\ rhs_params[1] = None
       THEN "is_not_null"                   \* lhs IS NOT NULL
       ELSE "ne"                            \* lhs != rhs

\* The truth of the returned SQL text on one row.
NotEqualTruth(sql, row, value) ==
    IF sql = "is_null_or_ne" THEN SqlOr(SqlIsNull(row), SqlNe(row, value))
    ELSE IF sql = "is_not_null" THEN SqlNot(SqlIsNull(row))
    ELSE SqlNe(row, value)

NotEqualSelects(lhs_nullable, row, value) ==
    Selected(NotEqualTruth(NotEqual_as_sql(lhs_nullable, value), row, value))

ApplyNotEqual ==
    /\ FilterIdle
    /\ \E lhs_nullable \in BOOLEAN, value \in NullableRows :
          filter_call' =
              [op |-> "not",
               args |-> [nullable |-> lhs_nullable, value |-> value],
               result |->
                   [sql |-> NotEqual_as_sql(lhs_nullable, value),
                    rows |-> { r \in ColumnRows(lhs_nullable) :
                                 NotEqualSelects(lhs_nullable, r, value) }]]
    /\ FilterFrame

\* C12: on a nullable field, f[not]=v with v not null selects the NULL rows
\* and the rows whose value differs from v, and no other row.
C12_NotEqualKeepsNull ==
    (/\ filter_call.op = "not"
     /\ filter_call.args.nullable
     /\ filter_call.args.value # None) =>
        filter_call.result.rows =
            { r \in NullableRows : r = None \/ r # filter_call.args.value }

\* f[not]="x" on a nullable field selects NULL and "y" and leaves out "x".
C12_Witness ==
    /\ filter_call.op = "not"
    /\ filter_call.args.nullable
    /\ filter_call.args.value = Some("x")
    /\ filter_call.result.rows = {None, Some("y")}

\* C13: with a null right-hand value the lookup is an IS NOT NULL predicate
\* and selects exactly the rows that are not NULL, for a nullable field as
\* for any other.
C13_NullIsNotNull ==
    (/\ filter_call.op = "not"
     /\ filter_call.args.value = None) =>
        /\ filter_call.result.sql = "is_not_null"
        /\ filter_call.result.rows =
               { r \in ColumnRows(filter_call.args.nullable) : r # None }

\* ---- IsEmpty lookup ----

NullableTextRows == {None} \cup { Some(t) : t \in TextRows }
EmptyText == <<>>

\* The right-hand side as the lookup gets it: the text of the boolean.
IsEmptyParams == {"True", "False"}

\* as_sql without the negation.
IsEmptyNeverNegated(rhs_param) == "is_false"

\* IsEmpty.as_sql: (lhs = '') IS NOT FALSE for "True", (lhs = '') IS FALSE
\* otherwise.
IsEmpty_as_sql(rhs_param) ==
    LET rhs_params == <<rhs_param>>
        not_negation == Len(rhs_params) = 1 /\ rhs_params[1] = "True"
    IN IF not_negation THEN "is_not_false" ELSE "is_false"

IsEmptyTruth(sql, row) ==
    LET eq == SqlEq(row, Some(EmptyText))
    IN IF sql = "is_not_false" THEN SqlBool(eq # SqlFalse)
       ELSE SqlBool(eq = SqlFalse)

ApplyIsEmpty ==
    /\ FilterIdle
    /\ \E rhs_param \in IsEmptyParams :
          filter_call' =
              [op |-> "isempty",
               args |-> [value |-> rhs_param],
               result |-> { r \in NullableTextRows :
                              Selected(IsEmptyTruth(IsEmpty_as_sql(rhs_param), r)) }]
    /\ FilterFrame

\* C14 as stated: isempty=true selects exactly the rows holding the empty
\* string and isempty=false all other rows, the NULL rows included.
C14_Original ==
    filter_call.op = "isempty" =>
        filter_call.result =
            IF filter_call.args.value = "True"
            THEN {Some(EmptyText)}
            ELSE NullableTextRows \ {Some(EmptyText)}

\* C14: isempty=true selects the rows holding the empty string and the NULL
\* rows; isempty=false selects exactly the rows holding a non-empty string.
C14_NullCountsAsEmpty ==
    filter_call.op = "isempty" =>
        filter_call.result =
            IF filter_call.args.value = "True"
            THEN {None, Some(EmptyText)}
            ELSE { r \in NullableTextRows : r # None /\ r # Some(EmptyText) }

\* isempty=false was applied and left out both the NULL row and the empty one.
C14_Witness ==
    /\ filter_call.op = "isempty"
    /\ filter_call.args.value = "False"
    /\ None \notin filter_call.result
    /\ Some(EmptyText) \notin filter_call.result
    /\ Some(<<"a">>) \in filter_call.result


\* ---- MultipleValueFilter ----

MaxValues == 2

\* The lookups a wrapped filter can carry and the two operators.
MultiLookups == {"exact", "not"}
Operators == {"AND", "OR"}
ValueLists_filter == UNION { [1..k -> FieldValues] : k \in 0..MaxValues }
\* django_filters.constants.EMPTY_VALUES, as far as a list of values goes.
EMPTY_VALUES == { <<>> }

\* Q(**{lookup: subvalue}) and the Q objects "&" and "|" build from two.
Q(lookup, subvalue) == [kind |-> "leaf", lookup |-> lookup, value |-> subvalue]
QCombine(op, left, right) ==
    [kind |-> "node", op |-> op, left |-> left, right |-> right]

\* reduce(op, (Q(lookup=subvalue) for subvalue in value)), value not empty.
RECURSIVE ReduceFrom(_, _, _, _, _)
ReduceFrom(op, lookup, value, i, acc) ==
    IF i > Len(value) THEN acc
    ELSE ReduceFrom(op, lookup, value, i + 1,
                    QCombine(op, acc, Q(lookup, value[i])))
Reduce(op, lookup, value) ==
    ReduceFrom(op, lookup, value, 2, Q(lookup, value[1]))

\* The truth of a Q object on a row of a nullable column.
RECURSIVE QTruth(_, _)
QTruth(q, row) ==
    IF q.kind = "leaf"
    THEN IF q.lookup = "not"
         THEN NotEqualTruth(NotEqual_as_sql(TRUE, Some(q.value)),
                            row, Some(q.value))
         ELSE SqlEq(row, Some(q.value))
    ELSE IF q.op = "AND"
         THEN SqlAnd(QTruth(q.left, row), QTruth(q.right, row))
         ELSE SqlOr(QTruth(q.left, row), QTruth(q.right, row))

\* filter keeping only the last of the values.
MultipleValueLastWins(rows, lookup, operator, value) ==
    IF value \in EMPTY_VALUES THEN rows
    ELSE { r \in rows : Selected(QTruth(Q(lookup, value[Len(value)]), r)) }

\* MultipleValueFilter.filter, for a filter that does not exclude.
MultipleValueFilter_filter(rows, lookup, operator, value) ==
    IF value \in EMPTY_VALUES THEN rows
    ELSE LET q == Reduce(operator, lookup, value)
         IN { r \in rows : Selected(QTruth(q, r)) }

ApplyMultipleValue ==
    /\ FilterIdle
    /\ \E lookup \in MultiLookups, operator \in Operators,
          value \in ValueLists_filter :
          filter_call' =
              [op |-> "multiple",
               args |-> [lookup |-> lookup, operator |-> operator,
                         value |-> value],
               result |-> MultipleValueFilter_filter(NullableRows, lookup,
                                                     operator, value)]
    /\ FilterFrame

\* The predicate of one value on one row.
ValueSelects(lookup, row, v) ==
    IF lookup = "not" THEN row = None \/ row # Some(v) ELSE row = Some(v)

\* C15: the rows returned satisfy the predicate of every value under AND and
\* of at least one value under OR; an empty list of values returns all rows.
C15_CombinesEveryValue ==
    filter_call.op = "multiple" =>
        LET a == filter_call.args
            n == Len(a.value)
        IN filter_call.result =
               IF n = 0 THEN NullableRows
               ELSE IF a.operator = "AND"
               THEN { r \in NullableRows :
                        \A i \in 1..n : ValueSelects(a.lookup, r, a.value[i]) }
               ELSE { r \in NullableRows :
                        \E i \in 1..n : ValueSelects(a.lookup, r, a.value[i]) }

\* f=x&f=y under OR returns the rows holding x and those holding y.
C15_Witness ==
    /\ filter_call.op = "multiple"
    /\ filter_call.args.operator = "OR"
    /\ filter_call.args.lookup = "exact"
    /\ filter_call.args.value = <<"x", "y">>
    /\ filter_call.result = {Some("x"), Some("y")}

\* ---- RangeFilter ----

MaxDay == 3
Days == 1..MaxDay
Digits == <<"0", "1", "2", "3", "4", "5", "6", "7", "8", "9">>
DigitText(n) == Digits[n + 1]
DigitValue(c) == (CHOOSE i \in 1..Len(Digits) : Digits[i] = c) - 1

\* The values the filter gets: blank texts and dates, a date being one digit.
BlankTexts == { <<>>, <<" ">>, <<" ", " ">> }
DateTexts == { <<DigitText(d)>> : d \in Days }
RangeValues == BlankTexts \cup DateTexts

\* str.strip()
RECURSIVE lstrip(_)
lstrip(s) == IF s # <<>> /\ Head(s) = " " THEN lstrip(Tail(s)) ELSE s
RECURSIVE rstrip(_)
rstrip(s) ==
    IF s # <<>> /\ s[Len(s)] = " " THEN rstrip(SubSeq(s, 1, Len(s) - 1)) ELSE s
strip(s) == rstrip(lstrip(s))

\* Rows with a start and an end, each a day or NULL.
NullableDays == {None} \cup { Some(d) : d \in Days }
RangeRows == [start : NullableDays, end : NullableDays]

SqlLte(a, b) == IF a = None \/ b = None THEN SqlNull ELSE SqlBool(a[1] <= b[1])
SqlGt(a, b) == IF a = None \/ b = None THEN SqlNull ELSE SqlBool(a[1] > b[1])
SqlGte(a, b) == IF a = None \/ b = None THEN SqlNull ELSE SqlBool(a[1] >= b[1])
SqlLt(a, b) == IF a = None \/ b = None THEN SqlNull ELSE SqlBool(a[1] < b[1])

\* filter with the end compared by gte.
RangeFilterClosedEnd(rows, value) ==
    IF strip(value) = <<>> THEN rows
    ELSE LET v == Some(DigitValue(value[1]))
         IN { r \in rows :
                Selected(SqlAnd(SqlOr(SqlLte(r.start, v), SqlIsNull(r.start)),
                                SqlOr(SqlGte(r.end, v), SqlIsNull(r.end)))) }

\* RangeFilter.filter
RangeFilter_filter(rows, value) ==
    IF strip(value) = <<>> THEN rows
    ELSE LET v == Some(DigitValue(value[1]))
         IN { r \in rows :
                Selected(SqlAnd(SqlOr(SqlLte(r.start, v), SqlIsNull(r.start)),
                                SqlOr(SqlGt(r.end, v), SqlIsNull(r.end)))) }

ApplyRange ==
    /\ FilterIdle
    /\ \E value \in RangeValues :
          filter_call' = [op |-> "range",
                          args |-> [value |-> value],
                          result |-> RangeFilter_filter(RangeRows, value)]
    /\ FilterFrame

RangeDay == DigitValue(filter_call.args.value[1])

\* C16: a value that is not blank returns exactly the rows with (start <= v
\* or start NULL) and (end > v or end NULL); a blank value returns all rows.
C16_HalfOpenRange ==
    filter_call.op = "range" =>
        IF filter_call.args.value \in BlankTexts
        THEN filter_call.result = RangeRows
        ELSE filter_call.result =
                 { r \in RangeRows :
                     /\ r.start = None \/ r.start[1] <= RangeDay
                     /\ r.end = None \/ r.end[1] > RangeDay }

\* Day 2 asked: the row starting on day 2 is returned, the row ending on day 2
\* is not, and an open-ended row that started before is.
C16_Witness ==
    /\ filter_call.op = "range"
    /\ filter_call.args.value = <<"2">>
    /\ [start |-> Some(2), end |-> Some(3)] \in filter_call.result
    /\ [start |-> Some(1), end |-> Some(2)] \notin filter_call.result
    /\ [start |-> Some(1), end |-> None] \in filter_call.result
    /\ [start |-> Some(3), end |-> None] \notin filter_call.result


\* ---- FlexDateTimeField and FlexDateTimeFilter ----

MaxTime == 1
\* Times of day, 0 being midnight.
Times == 0..MaxTime

\* A timestamp column: NULL or a day with a time of day.
Timestamps == [day : Days, time : Times]
TimestampRows == {None} \cup { Some(ts) : ts \in Timestamps }

\* Input texts: a bare date "d" or a full date-time "dTt".
FlexTexts ==
    { <<DigitText(d)>> : d \in Days }
        \cup { <<DigitText(d), "T", DigitText(t)>> : d \in Days, t \in Times }

\* input_formats: the ISO date-time formats, then the date formats.
DateFormats == {"date"}
input_formats == <<"datetime", "date">>

\* FlexDateTimeField.strptime: a date for a date format, a datetime for the
\* others; None when the text does not have the format (ValueError).
FlexDateTimeField_strptime(value, format) ==
    IF format \in DateFormats
    THEN IF Len(value) = 1
         THEN Some([type |-> "date", day |-> DigitValue(value[1])])
         ELSE None
    ELSE IF Len(value) = 3 /\ value[2] = "T"
         THEN Some([type |-> "datetime", day |-> DigitValue(value[1]),
                    time |-> DigitValue(value[3])])
         ELSE None

\* The field's to_python: the first of the input formats that parses.
RECURSIVE ParseFrom(_, _)
ParseFrom(value, i) ==
    IF i > Len(input_formats) THEN None
    ELSE IF FlexDateTimeField_strptime(value, input_formats[i]) # None
    THEN FlexDateTimeField_strptime(value, input_formats[i])
    ELSE ParseFrom(value, i + 1)
FlexDateTimeField_clean(value) == ParseFrom(value, 1)

LookupExprs == {"exact", "lte", "gte", "lt", "gt"}

SqlCompare(lookup, a, b) ==
    IF lookup = "lte" THEN SqlLte(a, b)
    ELSE IF lookup = "gte" THEN SqlGte(a, b)
    ELSE IF lookup = "lt" THEN SqlLt(a, b)
    ELSE IF lookup = "gt" THEN SqlGt(a, b)
    ELSE SqlEq(a, b)

\* A timestamp as one number, and the date transform of a column value.
Instant(day, time) == day * (MaxTime + 1) + time
InstantOf(row) == IF row = None THEN None ELSE Some(Instant(row[1].day, row[1].time))
DateOf(row) == IF row = None THEN None ELSE Some(row[1].day)

\* isinstance(value, datetime)
IsDatetime(value) == value.type = "datetime"

\* filter comparing the full timestamp whatever the input, a date counting as
\* its midnight.
FlexFilterFullTimestamp(rows, lookup_expr, value) ==
    IF value = None THEN rows
    ELSE LET v == value[1]
             t == IF IsDatetime(v) THEN v.time ELSE 0
         IN { r \in rows :
                Selected(SqlCompare(lookup_expr, InstantOf(r),
                                    Some(Instant(v.day, t)))) }

\* FlexDateTimeFilter.filter, value being the cleaned value or None.
FlexDateTimeFilter_filter(rows, lookup_expr, value) ==
    IF value = None THEN rows
    ELSE LET v == value[1]
         IN IF ~IsDatetime(v)
            THEN { r \in rows :
                     Selected(SqlCompare(lookup_expr, DateOf(r), Some(v.day))) }
            ELSE { r \in rows :
                     Selected(SqlCompare(lookup_expr, InstantOf(r),
                                         Some(Instant(v.day, v.time)))) }

ApplyFlexDateTime ==
    /\ FilterIdle
    /\ \E lookup_expr \in LookupExprs, text \in FlexTexts :
          filter_call' =
              [op |-> "flexdatetime",
               args |-> [lookup |-> lookup_expr, text |-> text],
               result |-> FlexDateTimeFilter_filter(
                              TimestampRows, lookup_expr,
                              FlexDateTimeField_clean(text))]
    /\ FilterFrame

\* Without a value the filter is not applied.
SkipFlexDateTime ==
    /\ FilterIdle
    /\ \E lookup_expr \in LookupExprs :
          filter_call' =
              [op |-> "flexdatetime_skipped",
               args |-> [lookup |-> lookup_expr],
               result |-> FlexDateTimeFilter_filter(TimestampRows,
                                                    lookup_expr, None)]
    /\ FilterFrame

IsBareDate(text) == Len(text) = 1
TextDay(text) == DigitValue(text[1])
TextTime(text) == DigitValue(text[3])

\* a compared with b under the lookup, a and b being pairs (day, time).
Ordered(lookup, a, b) ==
    LET less == a[1] < b[1] \/ (a[1] = b[1] /\ a[2] < b[2])
    IN IF lookup = "lte" THEN less \/ a = b
       ELSE IF lookup = "gte" THEN ~less
       ELSE IF lookup = "lt" THEN less
       ELSE IF lookup = "gt" THEN ~less /\ a # b
       ELSE a = b

\* C17: a bare date is compared with the date of the field and a full
\* date-time with the whole timestamp; lte with a bare date D returns every
\* row whose timestamp lies on day D or on an earlier day.
C17_BareDateComparesDates ==
    filter_call.op = "flexdatetime" =>
        LET a == filter_call.args
        IN /\ filter_call.result =
                  IF IsBareDate(a.text)
                  THEN { Some(ts) : ts \in
                           { t \in Timestamps :
                               Ordered(a.lookup, <<t.day, 0>>,
                                       <<TextDay(a.text), 0>>) } }
                  ELSE { Some(ts) : ts \in
                           { t \in Timestamps :
                               Ordered(a.lookup, <<t.day, t.time>>,
                                       <<TextDay(a.text), TextTime(a.text)>>) } }
           /\ (IsBareDate(a.text) /\ a.lookup = "lte") =>
                  \A ts \in Timestamps :
                      ts.day <= TextDay(a.text) => Some(ts) \in filter_call.result

\* lte with the bare date 2 returns a row of day 2 that is past midnight.
C17_Witness ==
    /\ filter_call.op = "flexdatetime"
    /\ filter_call.args.lookup = "lte"
    /\ filter_call.args.text = <<"2">>
    /\ Some([day |-> 2, time |-> 1]) \in filter_call.result
    /\ Some([day |-> 3, time |-> 0]) \notin filter_call.result


\* ---- Geometry [contains] filter: coordinates and their reference system ----

\* Coordinates are counted in thousandths, so 4.895 is 4895 and 121000 is
\* 121000000.  The bounds of the lat/lon box are the first and the last
\* thousandth inside the box of the source.
rd_x_min == 0
rd_y_min == 300000000
rd_x_max == 280000000
rd_y_max == 625000000
lat_min == 50804
lat_max == 53510
lon_min == 3315
lon_max == 7092

SRID_WGS84 == 4326
SRID_RD == 28992
SRID_OTHER == 3857

Coordinates ==
    { -1000, 0, 4895, 52370, 60000, 121000000, 487000000, 700000000 }
\* request.accept_crs.srid if request.accept_crs else None
AcceptCrs == { None, Some(SRID_WGS84), Some(SRID_RD), Some(SRID_OTHER) }

_valid_rd(x, y) ==
    IF ~(rd_x_min <= x /\ x <= rd_x_max) THEN FALSE
    ELSE IF ~(rd_y_min <= y /\ y <= rd_y_max) THEN FALSE
    ELSE TRUE

_valid_lat_lon(lat, lon) ==
    IF ~(lat_min <= lat /\ lat <= lat_max) THEN FALSE
    ELSE IF ~(lon_min <= lon /\ lon <= lon_max) THEN FALSE
    ELSE TRUE

\* Python's "not srid"
NotSrid(srid) == srid = None \/ srid = Some(0)

\* _validate_convert_x_y keeping the order of the pair in its first branch.
ValidateConvertUnswapped(x, y, srid) ==
    LET start == [x_lon |-> None, y_lat |-> None, srid |-> srid]
        geo == IF NotSrid(srid) \/ srid = Some(SRID_WGS84)
               THEN IF _valid_lat_lon(x, y) \/ _valid_lat_lon(y, x)
                    THEN [x_lon |-> Some(x), y_lat |-> Some(y),
                          srid |-> Some(SRID_WGS84)]
                    ELSE start
               ELSE start
    IN IF NotSrid(geo.srid) \/ geo.srid = Some(SRID_RD)
       THEN IF _valid_rd(x, y)
            THEN [x_lon |-> Some(x), y_lat |-> Some(y), srid |-> Some(SRID_RD)]
            ELSE geo
       ELSE IF geo.srid \notin {Some(SRID_RD), Some(SRID_WGS84)}
            THEN [geo EXCEPT !.x_lon = Some(x), !.y_lat = Some(y)]
            ELSE geo

\* _validate_convert_x_y: the two if statements in their order, the second
\* reading the srid the first may have set.
_validate_convert_x_y(x, y, srid) ==
    LET start == [x_lon |-> None, y_lat |-> None, srid |-> srid]
        geo == IF NotSrid(srid) \/ srid = Some(SRID_WGS84)
               THEN IF _valid_lat_lon(x, y)
                    THEN [x_lon |-> Some(y), y_lat |-> Some(x),
                          srid |-> Some(SRID_WGS84)]
                    ELSE IF _valid_lat_lon(y, x)
                    THEN [x_lon |-> Some(x), y_lat |-> Some(y),
                          srid |-> Some(SRID_WGS84)]
                    ELSE start
               ELSE start
    IN IF NotSrid(geo.srid) \/ geo.srid = Some(SRID_RD)
       THEN IF _valid_rd(x, y)
            THEN [x_lon |-> Some(x), y_lat |-> Some(y), srid |-> Some(SRID_RD)]
            ELSE geo
       ELSE IF geo.srid \notin {Some(SRID_RD), Some(SRID_WGS84)}
            THEN [geo EXCEPT !.x_lon = Some(x), !.y_lat = Some(y)]
            ELSE geo

\* get_filterset from "if x and y" on: the exception it raises, or the
\* arguments it gives GEOSGeometry.
get_filterset(x, y, accept_crs) ==
    LET r == _validate_convert_x_y(x, y, accept_crs)
    IN IF /\ r.srid \in {Some(SRID_WGS84), Some(SRID_RD)}
          /\ (r.x_lon = None \/ r.y_lat = None)
       THEN [outcome |-> "ValueError", cites |-> <<x, y>>]
       ELSE [outcome |-> "GEOSGeometry",
             x_lon |-> r.x_lon, y_lat |-> r.y_lat, srid |-> r.srid]

ApplyGeometry ==
    /\ FilterIdle
    /\ \E x \in Coordinates, y \in Coordinates, accept_crs \in AcceptCrs :
          filter_call' = [op |-> "geometry",
                          args |-> [x |-> x, y |-> y, srid |-> accept_crs],
                          result |-> get_filterset(x, y, accept_crs)]
    /\ FilterFrame

InLatLonBox(lat, lon) ==
    lat_min <= lat /\ lat <= lat_max /\ lon_min <= lon /\ lon <= lon_max
InRdBox(x, y) ==
    rd_x_min <= x /\ x <= rd_x_max /\ rd_y_min <= y /\ y <= rd_y_max
Geometry(x_lon, y_lat, srid) ==
    [outcome |-> "GEOSGeometry",
     x_lon |-> Some(x_lon), y_lat |-> Some(y_lat), srid |-> srid]

\* C18: with no CRS or 4326 and the pair in the lat/lon box in either order,
\* the geometry is in 4326 with the longitude first; with no CRS or 28992 and
\* the pair in the RD box, it is in 28992 with the pair as given; with any
\* other CRS the pair is passed as given with that CRS.
C18_ResolvesCoordinates ==
    filter_call.op = "geometry" =>
        LET a == filter_call.args
            r == filter_call.result
        IN /\ (a.srid \in {None, Some(SRID_WGS84)} /\ InLatLonBox(a.x, a.y)) =>
                  r = Geometry(a.y, a.x, Some(SRID_WGS84))
           /\ (a.srid \in {None, Some(SRID_WGS84)} /\ InLatLonBox(a.y, a.x)) =>
                  r = Geometry(a.x, a.y, Some(SRID_WGS84))
           /\ (a.srid \in {None, Some(SRID_RD)} /\ InRdBox(a.x, a.y)) =>
                  r = Geometry(a.x, a.y, Some(SRID_RD))
           /\ a.srid \notin {None, Some(SRID_WGS84), Some(SRID_RD)} =>
                  r = Geometry(a.x, a.y, a.srid)
           /\ (a.srid = None /\ a.x = 4895 /\ a.y = 52370) =>
                  r.srid = Some(SRID_WGS84) /\ r.x_lon = Some(4895)
           /\ (a.srid = None /\ a.x = 121000000 /\ a.y = 487000000) =>
                  r.srid = Some(SRID_RD)

\* 52.370,4.895 (latitude first) without a CRS: 4326 with the longitude first.
C18_Witness ==
    /\ filter_call.op = "geometry"
    /\ filter_call.args = [x |-> 52370, y |-> 4895, srid |-> None]
    /\ filter_call.result = Geometry(4895, 52370, Some(SRID_WGS84))

\* C19: a pair in neither box, with no CRS, 4326 or 28992, fails with a
\* ValidationError citing the pair, and no geometry is built from it.
C19_UnresolvedPairIsRejected ==
    (/\ filter_call.op = "geometry"
     /\ filter_call.args.srid \in {None, Some(SRID_WGS84), Some(SRID_RD)}
     /\ ~InLatLonBox(filter_call.args.x, filter_call.args.y)
     /\ ~InLatLonBox(filter_call.args.y, filter_call.args.x)
     /\ ~InRdBox(filter_call.args.x, filter_call.args.y)) =>
        /\ filter_call.result.outcome = "ValidationError"
        /\ filter_call.result.cites = <<filter_call.args.x, filter_call.args.y>>

\* The text of a coordinate: a sign, a whole part and, when written as a
\* decimal, the thousandths after the point.
Abs(c) == IF c < 0 THEN 0 - c ELSE c
NumeralsOf(c) ==
    { [negative |-> c < 0, whole |-> Abs(c) \div 1000, fraction |-> f] :
        f \in {Some(Abs(c) % 1000)} \cup (IF c % 1000 = 0 THEN {None} ELSE {}) }
Numerals == UNION { NumeralsOf(c) : c \in Coordinates }
\* float(x), in thousandths
float(n) ==
    LET magnitude == n.whole * 1000 + (IF n.fraction = None THEN 0 ELSE n.fraction[1])
    IN IF n.negative THEN 0 - magnitude ELSE magnitude

\* The value of the [contains] parameter: "x,y" or "POINT(x y)", the x
\* possibly left out.
GeometryValues ==
    [syntax : {"x,y", "POINT(x y)"},
     x : { Some(n) : n \in Numerals } \cup {None},
     y : Numerals]

\* [-+]?\d+(?:\.\d+)? and [-+]?\d*(?:\.\d+)? match a numeral written either
\* way; [-+]?\d+(?:\.\d+) only one with decimals.
MatchesOptionalDecimals(n) == TRUE
MatchesMandatoryDecimals(n) == n.fraction # None

\* re.match of the first pattern: the groups, or None.
match_x_y(value) ==
    IF value.syntax = "x,y"
           /\ (value.x # None => MatchesOptionalDecimals(value.x[1]))
           /\ MatchesOptionalDecimals(value.y)
    THEN Some([x |-> value.x, y |-> Some(value.y)])
    ELSE None

\* re.match of the second pattern: the groups, or None.
match_point(value) ==
    IF value.syntax = "POINT(x y)"
           /\ (value.x # None => MatchesMandatoryDecimals(value.x[1]))
           /\ MatchesMandatoryDecimals(value.y)
    THEN Some([x |-> value.x, y |-> Some(value.y)])
    ELSE None

\* get_filterset for one [contains] value of a geometry filter: the value is
\* replaced by a geometry, an error is raised, or the value is left as the
\* text it was.
get_filterset_value(value, accept_crs) ==
    LET m1 == IF match_x_y(value) # None THEN match_x_y(value)
              ELSE match_point(value)
    IN IF m1 = None THEN [outcome |-> "unchanged"]
       ELSE IF m1[1].x = None \/ m1[1].y = None THEN [outcome |-> "unchanged"]
       ELSE get_filterset(float(m1[1].x[1]), float(m1[1].y[1]), accept_crs)

ApplyGeometryValue ==
    /\ FilterIdle
    /\ \E value \in GeometryValues, accept_crs \in AcceptCrs :
          filter_call' = [op |-> "geometry value",
                          args |-> [value |-> value, srid |-> accept_crs],
                          result |-> get_filterset_value(value, accept_crs)]
    /\ FilterFrame

\* C26: "POINT(x y)" resolves to what "x,y" resolves to, for numbers written
\* with or without decimals.
C26_PointResolvesAsPair ==
    (/\ filter_call.op = "geometry value"
     /\ filter_call.args.value.syntax = "POINT(x y)"
     /\ filter_call.args.value.x # None) =>
        filter_call.result =
            get_filterset_value([filter_call.args.value EXCEPT !.syntax = "x,y"],
                                filter_call.args.srid)


\* ---- DSOOrderingFilter ----

MaxTerms == 2

\* Field names as texts.  The serializer of the containers exposes "id" and
\* "datumCreatie", stored in the columns "id" and "datum_creatie".
Name_id == <<"i", "d">>
Name_datumCreatie ==
    <<"d", "a", "t", "u", "m", "C", "r", "e", "a", "t", "i", "e">>
Name_datum_creatie ==
    <<"d", "a", "t", "u", "m", "_", "c", "r", "e", "a", "t", "i", "e">>
Name_unknown == <<"k", "l", "e", "u", "r">>
\* The fields a term may name: the serializer's fields, by their outer names.
ValidFields == {Name_id, Name_datumCreatie}

Descending(name) == <<"-">> \o name
SortNames == {Name_id, Name_datumCreatie, Name_datum_creatie, Name_unknown}
SortTerms == SortNames \cup { Descending(n) : n \in SortNames }
\* The terms of one parameter, already split at the commas.
TermLists == UNION { [1..k -> SortTerms] : k \in 0..MaxTerms }
OrderingParams == {"_sort", "sorteer"}
\* request.query_params, as far as ordering goes: at most one parameter.
SortQueries ==
    {<<>>} \cup { [p \in {name} |-> terms] :
                    name \in OrderingParams, terms \in TermLists }

UpperCase == <<"C">>
LowerCase == <<"c">>
IsUpper(c) == \E i \in 1..Len(UpperCase) : UpperCase[i] = c
ToLower(c) == LowerCase[CHOOSE i \in 1..Len(UpperCase) : UpperCase[i] = c]

\* to_snake_case: a capital becomes an underscore and its small letter.
RECURSIVE to_snake_case(_)
to_snake_case(s) ==
    IF s = <<>> THEN <<>>
    ELSE IF IsUpper(Head(s))
    THEN <<"_", ToLower(Head(s))>> \o to_snake_case(Tail(s))
    ELSE <<Head(s)>> \o to_snake_case(Tail(s))

\* str.split(sep) and sep.join(parts) for a one-character sep.
RECURSIVE split(_, _)
split(s, sep) ==
    IF \A i \in 1..Len(s) : s[i] # sep THEN <<s>>
    ELSE LET i == CHOOSE k \in 1..Len(s) :
                      s[k] = sep /\ \A j \in 1..(k - 1) : s[j] # sep
         IN <<SubSeq(s, 1, i - 1)>> \o split(SubSeq(s, i + 1, Len(s)), sep)
RECURSIVE join(_, _)
join(parts, sep) ==
    IF Len(parts) = 1 THEN parts[1]
    ELSE parts[1] \o <<sep>> \o join(Tail(parts), sep)

\* OrderingFilter.remove_invalid_fields: the terms naming a valid field, a
\* leading "-" set aside.
term_valid(term) ==
    LET name == IF term # <<>> /\ Head(term) = "-" THEN Tail(term) ELSE term
    IN name \in ValidFields
CleanedFields(fields) == SelectSeq(fields, term_valid)

\* remove_invalid_fields naming only the first term it dropped.
RemoveInvalidFirstOnly(fields) ==
    IF CleanedFields(fields) # fields
    THEN [outcome |-> "ValidationError",
          invalid |-> { fields[CHOOSE i \in 1..Len(fields) :
                                  /\ ~term_valid(fields[i])
                                  /\ \A j \in 1..(i - 1) : term_valid(fields[j])] }]
    ELSE [outcome |-> "cleaned", ordering |-> CleanedFields(fields)]

\* DSOOrderingFilter.remove_invalid_fields: the cleaned terms, or the
\* ValidationError naming the terms that were dropped.
remove_invalid_fields(fields) ==
    IF CleanedFields(fields) # fields
    THEN [outcome |-> "ValidationError",
          invalid |-> { fields[i] : i \in 1..Len(fields) }
                          \ { CleanedFields(fields)[i] :
                                i \in 1..Len(CleanedFields(fields)) }]
    ELSE [outcome |-> "cleaned", ordering |-> CleanedFields(fields)]

\* OrderingFilter.get_ordering: the cleaned terms of the parameter, None (the
\* default ordering of a view that sets none) without terms.
super_get_ordering(query_params, ordering_param) ==
    IF ordering_param \in DOMAIN query_params
           /\ query_params[ordering_param] # <<>>
    THEN LET cleaned == remove_invalid_fields(query_params[ordering_param])
         IN IF cleaned.outcome = "ValidationError" THEN cleaned
            ELSE [outcome |-> "ordering", ordering |-> Some(cleaned.ordering)]
    ELSE [outcome |-> "ordering", ordering |-> None]

\* get_ordering returning the terms as they were requested.
GetOrderingUnconverted(query_params) ==
    LET ordering_param ==
            IF "_sort" \notin DOMAIN query_params
                   /\ "sorteer" \in DOMAIN query_params
            THEN "sorteer" ELSE "_sort"
    IN super_get_ordering(query_params, ordering_param)

\* DSOOrderingFilter.get_ordering
DSOOrderingFilter_get_ordering(query_params) ==
    LET ordering_param ==
            IF "_sort" \notin DOMAIN query_params
                   /\ "sorteer" \in DOMAIN query_params
            THEN "sorteer" ELSE "_sort"
        res == super_get_ordering(query_params, ordering_param)
    IN IF res.outcome = "ValidationError" \/ res.ordering = None THEN res
       ELSE LET ordering == res.ordering[1]
                correct_ordering ==
                    [i \in 1..Len(ordering) |->
                        LET parts == split(ordering[i], "-")
                        IN join([k \in 1..Len(parts) |-> to_snake_case(parts[k])],
                                "-")]
            IN [outcome |-> "ordering", ordering |-> Some(correct_ordering)]

ApplyOrdering ==
    /\ FilterIdle
    /\ \E query_params \in SortQueries :
          filter_call' = [op |-> "ordering",
                          args |-> [query |-> query_params],
                          result |-> DSOOrderingFilter_get_ordering(query_params)]
    /\ FilterFrame

\* The column behind each outer field name.
ColumnOf(name) == IF name = Name_datumCreatie THEN Name_datum_creatie ELSE name
RequestedTerms ==
    LET q == filter_call.args.query
    IN IF q = <<>> THEN <<>> ELSE q[CHOOSE p \in DOMAIN q : TRUE]
TermName(term) == IF term # <<>> /\ Head(term) = "-" THEN Tail(term) ELSE term
IsDescending(term) == term # <<>> /\ Head(term) = "-"

\* C20: every requested term is ordered on under the column of its outer
\* name, a leading "-" kept; a term that is not an outer field name, such as
\* the column name datum_creatie, is rejected and reported.
C20_SortTermsAreConverted ==
    filter_call.op = "ordering" =>
        LET terms == RequestedTerms
            r == filter_call.result
            bad == { terms[i] : i \in 1..Len(terms) } \ 
                       { t \in SortTerms : TermName(t) \in ValidFields }
        IN IF bad # {}
           THEN r.outcome = "ValidationError" /\ r.invalid = bad
           ELSE /\ r.outcome = "ordering"
                /\ terms # <<>> =>
                       /\ r.ordering # None
                       /\ Len(r.ordering[1]) = Len(terms)
                       /\ \A i \in 1..Len(terms) :
                              r.ordering[1][i] =
                                  IF IsDescending(terms[i])
                                  THEN Descending(ColumnOf(TermName(terms[i])))
                                  ELSE ColumnOf(terms[i])

\* _sort=-datumCreatie orders descending on datum_creatie.
C20_Witness ==
    /\ filter_call.op = "ordering"
    /\ filter_call.args.query = [p \in {"_sort"} |-> <<Descending(Name_datumCreatie)>>]
    /\ filter_call.result =
           [outcome |-> "ordering",
            ordering |-> Some(<<Descending(Name_datum_creatie)>>)]

\* C21: when a requested term names no valid field the filter fails with a
\* ValidationError that names every such term and applies no ordering; when
\* all terms are valid the ordering has every one of them.
C21_EveryInvalidFieldListed ==
    filter_call.op = "ordering" =>
        LET terms == RequestedTerms
            r == filter_call.result
            invalid == { terms[i] : i \in { k \in 1..Len(terms) :
                                              TermName(terms[k]) \notin ValidFields } }
        IN IF invalid # {}
           THEN /\ r.outcome = "ValidationError"
                /\ invalid \subseteq r.invalid
                /\ r.invalid \subseteq invalid
           ELSE /\ r.outcome = "ordering"
                /\ terms # <<>> => Len(r.ordering[1]) = Len(terms)

\* Two terms that name no field, after a valid one or not: both are reported.
C21_Witness ==
    /\ filter_call.op = "ordering"
    /\ RequestedTerms = <<Name_unknown, Descending(Name_datum_creatie)>>
    /\ filter_call.result.outcome = "ValidationError"
    /\ filter_call.result.invalid =
           {Name_unknown, Descending(Name_datum_creatie)}

(***************************************************************************)
(* One DSOOrderingFilter instance over a sequence of requests              *)
(***************************************************************************)

MaxOrderingCalls == 3

\* The requests one instance is given: either parameter, both or none, each
\* with one term.
InstanceTermLists ==
    { <<Name_id>>, <<Descending(Name_datumCreatie)>>, <<Name_datum_creatie>>,
      <<Descending(Name_id)>> }
InstanceQueries ==
    UNION { [params -> InstanceTermLists] : params \in SUBSET OrderingParams }

\* get_ordering on an instance whose ordering_param is what earlier calls
\* left: the attribute after the call, and the ordering or the error.
get_ordering(self, query_params) ==
    LET ordering_param ==
            IF self.ordering_param \notin DOMAIN query_params
                   /\ "sorteer" \in DOMAIN query_params
            THEN "sorteer" ELSE self.ordering_param
        res == super_get_ordering(query_params, ordering_param)
        result ==
            IF res.outcome = "ValidationError" \/ res.ordering = None THEN res
            ELSE LET ordering == res.ordering[1]
                     correct_ordering ==
                         [i \in 1..Len(ordering) |->
                             LET parts == split(ordering[i], "-")
                             IN join([k \in 1..Len(parts) |->
                                         to_snake_case(parts[k])], "-")]
                 IN [outcome |-> "ordering", ordering |-> Some(correct_ordering)]
    IN [self |-> [ordering_param |-> ordering_param], result |-> result]

\* A new instance: ordering_param is the class attribute "_sort".
OrderingIdle ==
    /\ self_ordering_param = "_sort"
    /\ ordering_last = None
    /\ ordering_calls = 0

\* One more request is ordered by the instance.
GetOrdering ==
    /\ ordering_calls < MaxOrderingCalls
    /\ \E query_params \in InstanceQueries :
          LET call == get_ordering([ordering_param |-> self_ordering_param],
                                   query_params)
          IN /\ self_ordering_param' = call.self.ordering_param
             /\ ordering_last' = Some([query |-> query_params,
                                       result |-> call.result])
    /\ ordering_calls' = ordering_calls + 1
    /\ OrderingFrame

\* A view makes a new instance for its next request.
NewInstance ==
    /\ ordering_calls > 0
    /\ ordering_calls < MaxOrderingCalls
    /\ self_ordering_param' = "_sort"
    /\ UNCHANGED <<ordering_last, ordering_calls>>
    /\ OrderingFrame

Str(chars) == [kind |-> "str", chars |-> chars]
Bytes(chars) == [kind |-> "bytes", chars |-> chars]
\* str.encode("iso-8859-1"): one byte for each character.
encode(s) == Bytes(s.chars)
NonEmpty(s) == s.chars # <<>>

\* request.META of the incoming request.
ClientAddrs == {Str(<<"1">>), Str(<<"2">>)}
MetaValue(key) ==
    CASE key = "HTTP_X_FORWARDED_FOR" -> Str(<<"9">>)
      [] key = "HTTP_X_CORRELATION_ID" -> Str(<<"c">>)
      [] key = "HTTP_X_UNIQUE_ID" -> Str(<<"u">>)
      [] key = "HTTP_AUTHORIZATION" -> Str(<<"t">>)
      [] key = "HTTP_COOKIE" -> Str(<<"k">>)
HeaderKeys == {"HTTP_X_FORWARDED_FOR", "HTTP_X_CORRELATION_ID",
               "HTTP_X_UNIQUE_ID", "HTTP_AUTHORIZATION", "HTTP_COOKIE"}
\* Every header is absent, empty, or has a value.
Metas ==
    UNION { { [k \in keys \cup {"REMOTE_ADDR"} |->
                 IF k = "REMOTE_ADDR" THEN addr
                 ELSE IF k \in empty THEN Str(<<>>) ELSE MetaValue(k)] :
              addr \in ClientAddrs, empty \in SUBSET keys } :
            keys \in SUBSET HeaderKeys }

default_headers == [h \in {"Accept"} |-> Str(<<"application/json; charset=utf-8">>)]
headers_passthrough == <<"Authorization">>

\* dict.get
dict_get(d, key, default) == IF key \in DOMAIN d THEN d[key] ELSE default
\* dict.get without a default: None when the key is missing.
GetOpt(d, key) == IF key \in DOMAIN d THEN Some(d[key]) ELSE None
\* not x, for None or a text
Falsy(opt) == opt = None \/ ~NonEmpty(opt[1])
\* request.headers: the HTTP_ entries of META under their header names.
MetaKey(header) ==
    CASE header = "Authorization" -> "HTTP_AUTHORIZATION"
      [] header = "Cookie" -> "HTTP_COOKIE"
      [] header = "X-Forwarded-For" -> "HTTP_X_FORWARDED_FOR"
      [] header = "X-Correlation-ID" -> "HTTP_X_CORRELATION_ID"
      [] header = "X-Unique-ID" -> "HTTP_X_UNIQUE_ID"
request_headers_get(META, header, default) == dict_get(META, MetaKey(header), default)

\* d with d[key] = value
Put(d, key, value) ==
    [k \in DOMAIN d \cup {key} |-> IF k = key THEN value ELSE d[k]]

\* get_headers passing every request header on.
GetHeadersForwardAll(META) ==
    LET client_ip == encode(META["REMOTE_ADDR"])
        names == {"X-Forwarded-For", "X-Correlation-ID", "X-Unique-ID",
                  "Authorization", "Cookie"}
        given == { h \in names : MetaKey(h) \in DOMAIN META }
    IN [h \in {"Accept"} \cup given \cup {"X-Forwarded-For"} |->
          IF h = "Accept" THEN default_headers[h]
          ELSE IF h = "X-Forwarded-For"
          THEN IF NonEmpty(dict_get(META, "HTTP_X_FORWARDED_FOR", Str(<<>>)))
               THEN Bytes(META["HTTP_X_FORWARDED_FOR"].chars \o <<" ">>
                              \o client_ip.chars)
               ELSE client_ip
          ELSE encode(META[MetaKey(h)])]

\* get_headers putting the client address in front of the forwarded ones.
GetHeadersPrepended(META) ==
    LET client_ip == encode(META["REMOTE_ADDR"])
        forward == dict_get(META, "HTTP_X_FORWARDED_FOR", Str(<<>>))
        corr == dict_get(META, "HTTP_X_CORRELATION_ID", Str(<<>>))
        uniq == dict_get(META, "HTTP_X_UNIQUE_ID", Str(<<>>))
        auth == dict_get(META, "HTTP_AUTHORIZATION", Str(<<>>))
        h1 == Put(default_headers, "X-Forwarded-For",
                  IF NonEmpty(forward)
                  THEN Bytes(client_ip.chars \o <<" ">> \o forward.chars)
                  ELSE client_ip)
        h2 == IF NonEmpty(corr) THEN Put(h1, "X-Correlation-ID", encode(corr))
              ELSE IF NonEmpty(uniq) THEN Put(h1, "X-Correlation-ID", encode(uniq))
              ELSE h1
    IN IF NonEmpty(auth) THEN Put(h2, "Authorization", encode(auth)) ELSE h2

\* The allow-list loop of get_headers over headers_passthrough[i..].
RECURSIVE PassThrough(_, _, _)
PassThrough(META, headers, i) ==
    IF i > Len(headers_passthrough) THEN headers
    ELSE LET header == headers_passthrough[i]
             value == request_headers_get(META, header, Str(<<>>))
         IN IF ~NonEmpty(value) THEN PassThrough(META, headers, i + 1)
            ELSE PassThrough(META, Put(headers, header, encode(value)), i + 1)

\* RemoteViewSet.get_headers
get_headers(META) ==
    LET client_ip == encode(META["REMOTE_ADDR"])
        forward0 == dict_get(META, "HTTP_X_FORWARDED_FOR", Str(<<>>))
        forward == IF NonEmpty(forward0)
                   THEN Bytes(encode(forward0).chars \o <<" ">> \o client_ip.chars)
                   ELSE client_ip
        headers == Put(default_headers, "X-Forwarded-For", forward)
        x_correlation_id0 == GetOpt(META, "HTTP_X_CORRELATION_ID")
        x_correlation_id ==
            IF Falsy(x_correlation_id0) THEN GetOpt(META, "HTTP_X_UNIQUE_ID")
            ELSE x_correlation_id0
        headers2 ==
            IF ~Falsy(x_correlation_id)
            THEN Put(headers, "X-Correlation-ID", encode(x_correlation_id[1]))
            ELSE headers
    IN PassThrough(META, headers2, 1)

\* What http_pool.request can raise, each with the classes it is an instance
\* of among those the except clauses name.
TransportErrors ==
    { [name |-> "socket.timeout", mro |-> {"TimeoutError", "OSError"}],
      [name |-> "ReadTimeoutError",
       mro |-> {"urllib3.exceptions.TimeoutError", "urllib3.exceptions.HTTPError"}],
      [name |-> "ConnectionResetError", mro |-> {"OSError"}],
      [name |-> "SSLError", mro |-> {"urllib3.exceptions.HTTPError"}] }
isinstance(e, classes) == e.mro \cap classes # {}

\* Response bodies, byte by byte: two JSON documents, text that is no JSON,
\* the message of the MKS service, and a byte that is no UTF-8.
Body_list == <<"[", "]">>
Body_dict == <<"{", "}">>
Body_text == <<"n", "o">>
Body_mks == <<"Missing required MKS headers">>
Body_binary == <<"0xFF">>
Bodies == {Body_list, Body_dict, Body_text, Body_mks, Body_binary}
ContentType_html == <<"text/html", "; charset=utf-8">>
ContentType_json == <<"application/json">>
ContentType_problem == <<"application/problem+json">>
ContentTypes == {ContentType_html, ContentType_json, ContentType_problem}
Location_authorize == <<"https://idp", "/oauth/authorize", "?client_id=x">>
Location_other == <<"https://upstream", "/moved">>
Statuses == {200, 201, 302, 400, 403, 404, 500}
ResponseHeaders(status) ==
    LET cts == {<<>>} \cup { [h \in {"content-type"} |-> ctype] : ctype \in ContentTypes }
        locs == IF 300 <= status /\ status <= 399
                THEN { [h \in {"Location"} |-> l] :
                         l \in {Location_authorize, Location_other} }
                     \cup {<<>>}
                ELSE {<<>>}
    IN { [h \in DOMAIN c \cup DOMAIN l |-> IF h \in DOMAIN c THEN c[h] ELSE l[h]] :
           c \in cts, l \in locs }
Responses ==
    UNION { { [status |-> status, headers |-> hs, data |-> body] :
                hs \in ResponseHeaders(status), body \in Bodies } :
            status \in Statuses }

\* str.startswith and the "in" of two texts
startswith(s, prefix) ==
    Len(s) >= Len(prefix) /\ SubSeq(s, 1, Len(prefix)) = prefix
contains(s, part) ==
    \E i \in 1..(Len(s) + 1 - Len(part)) : SubSeq(s, i, i + Len(part) - 1) = part

\* bytes.decode(): the text, or None for bytes that are no UTF-8.
decode(data) ==
    IF \E i \in 1..Len(data) : data[i] = "0xFF" THEN None ELSE Some(data)
\* orjson.loads: the document, or None for bytes that are no JSON.
orjson_loads(data) ==
    IF data = Body_list THEN Some(<<"list">>)
    ELSE IF data = Body_dict THEN Some(<<"dict">>)
    ELSE None

\* How a call ends.
Returns(data) == [outcome |-> "return", value |-> data]
Raise(exception, status_code, detail) ==
    [outcome |-> "raise", exception |-> exception,
     status_code |-> status_code, detail |-> detail]

\* The except clauses of _call_remote, connection errors first.
CallRemoteExceptSwapped(e) ==
    IF isinstance(e, {"OSError", "urllib3.exceptions.HTTPError"})
    THEN Raise("ServiceUnavailable", None, Some(<<e.name>>))
    ELSE IF isinstance(e, {"TimeoutError", "urllib3.exceptions.TimeoutError"})
    THEN Raise("GatewayTimeout", None, None)
    ELSE Raise(e.name, None, None)

\* The except clauses of _call_remote.
_call_remote_except(e) ==
    IF isinstance(e, {"TimeoutError", "urllib3.exceptions.TimeoutError"})
    THEN Raise("GatewayTimeout", None, None)
    ELSE IF isinstance(e, {"OSError", "urllib3.exceptions.HTTPError"})
    THEN Raise("ServiceUnavailable", None, Some(<<e.name>>))
    ELSE Raise(e.name, None, None)

\* RemoteViewSet._raise_http_error
_raise_http_error(resp) ==
    LET content_type == dict_get(resp.headers, "content-type", <<>>)
        html == startswith(content_type, <<"text/html">>)
        detail_message == IF html THEN None ELSE decode(resp.data)
        problem == orjson_loads(resp.data)
    IN IF ~html /\ decode(resp.data) = None
       THEN Raise("UnicodeDecodeError", None, None)
       ELSE IF 300 <= resp.status /\ resp.status <= 399
                 /\ contains(dict_get(resp.headers, "Location", <<>>),
                             <<"/oauth/authorize">>)
       THEN Raise("NotAuthenticated", None, Some(<<"Invalid token">>))
       ELSE IF resp.status = 400
       THEN IF resp.data = Body_mks
            THEN Raise("NotAuthenticated", None,
                       Some(<<"Internal credentials are missing">>))
            ELSE IF content_type = ContentType_problem
            THEN IF problem = None THEN Raise("JSONDecodeError", None, None)
                 ELSE Raise("RemoteAPIException", Some(400), problem)
            ELSE Raise("BadGateway", None, detail_message)
       ELSE IF resp.status = 403
       THEN Raise("NotAuthenticated", None, detail_message)
       ELSE IF resp.status = 404
       THEN IF content_type = ContentType_problem
            THEN IF problem = None THEN Raise("JSONDecodeError", None, None)
                 ELSE Raise("RemoteAPIException", Some(404), problem)
            ELSE Raise("NotFound", None, detail_message)
       ELSE Raise("BadGateway", None,
                  IF detail_message = None \/ detail_message = Some(<<>>)
                  THEN Some(<<"Unexpected HTTP from internal endpoint">>)
                  ELSE detail_message)

\* _call_remote once http_pool.request has returned.
_call_remote_response(resp) ==
    IF resp.status = 200
    THEN IF orjson_loads(resp.data) = None
         THEN Raise("JSONDecodeError", None, None)
         ELSE Returns(orjson_loads(resp.data)[1])
    ELSE _raise_http_error(resp)

\* RemoteViewSet.validate
validate(is_valid, raw_data) ==
    IF ~is_valid
    THEN Raise("RemoteAPIException", Some(502), Some(raw_data))
    ELSE Returns(raw_data)

EndpointUrls == {"", "https://upstream/"}
NoRemoteCall ==
    [pc |-> "idle", META |-> None, endpoint_url |-> None, headers |-> None,
     sent |-> 0, retries |-> None, error |-> None, response |-> None,
     result |-> None, answer |-> None]
RemoteIdle == remote = NoRemoteCall

\* list or retrieve up to http_pool.request of _call_remote: without an
\* endpoint_url the view is misconfigured, otherwise the one GET is sent with
\* the collected headers and retries=False.
CallRemote ==
    /\ RemoteIdle
    /\ \E META \in Metas, endpoint_url \in EndpointUrls :
          remote' =
              IF endpoint_url = ""
              THEN [remote EXCEPT !.pc = "done", !.META = Some(META),
                                  !.endpoint_url = Some(endpoint_url),
                                  !.result = Some(Raise("ImproperlyConfigured",
                                                        None, None))]
              ELSE [remote EXCEPT !.pc = "waiting", !.META = Some(META),
                                  !.endpoint_url = Some(endpoint_url),
                                  !.headers = Some(get_headers(META)),
                                  !.retries = Some(FALSE),
                                  !.sent = 1]
    /\ RemoteFrame

\* http_pool.request raises: with retries the pool would send again, without
\* them the except clauses of _call_remote decide.
RequestFails ==
    /\ remote.pc = "waiting"
    /\ \E e \in TransportErrors :
          remote' =
              IF remote.retries # Some(FALSE)
              THEN [remote EXCEPT !.sent = @ + 1, !.retries = Some(FALSE)]
              ELSE [remote EXCEPT !.pc = "done", !.error = Some(e),
                                  !.result = Some(_call_remote_except(e))]
    /\ RemoteFrame

\* http_pool.request returns a response: the data of a 200 goes on to the
\* serializer, anything else is raised.
RequestResponds ==
    /\ remote.pc = "waiting"
    /\ \E resp \in Responses :
          LET result == _call_remote_response(resp)
          IN remote' = [remote EXCEPT
                          !.pc = IF result.outcome = "return" THEN "validate"
                                 ELSE "done",
                          !.response = Some(resp),
                          !.result = Some(result)]
    /\ RemoteFrame

\* The view validates the data against the schema and answers.
Validate ==
    /\ remote.pc = "validate"
    /\ \E is_valid \in BOOLEAN :
          remote' = [remote EXCEPT
                       !.pc = "done",
                       !.answer = Some(validate(is_valid, remote.result[1].value))]
    /\ RemoteFrame

\* The request of the call in progress and what get_headers made of it.
CallSent == remote.headers # None
RemoteMETA == remote.META[1]
RemoteHeaders == remote.headers[1]
HasValue(META, key) == key \in DOMAIN META /\ META[key].chars # <<>>
AppendedTo(forward, client_ip) == Bytes(forward.chars \o <<" ">> \o client_ip.chars)

\* C22 as stated: the headers follow the presence of the incoming headers.
C22_Original ==
    CallSent =>
        LET META == RemoteMETA
            h == RemoteHeaders
        IN /\ h["X-Forwarded-For"] =
                 IF "HTTP_X_FORWARDED_FOR" \in DOMAIN META
                 THEN AppendedTo(META["HTTP_X_FORWARDED_FOR"], META["REMOTE_ADDR"])
                 ELSE Bytes(META["REMOTE_ADDR"].chars)
           /\ IF "HTTP_X_CORRELATION_ID" \in DOMAIN META
              THEN /\ "X-Correlation-ID" \in DOMAIN h
                   /\ h["X-Correlation-ID"] = Bytes(META["HTTP_X_CORRELATION_ID"].chars)
              ELSE IF "HTTP_X_UNIQUE_ID" \in DOMAIN META
              THEN /\ "X-Correlation-ID" \in DOMAIN h
                   /\ h["X-Correlation-ID"] = Bytes(META["HTTP_X_UNIQUE_ID"].chars)
              ELSE "X-Correlation-ID" \notin DOMAIN h
           /\ "Authorization" \in DOMAIN h <=> HasValue(META, "HTTP_AUTHORIZATION")
           /\ "Authorization" \in DOMAIN h =>
                  h["Authorization"] = Bytes(META["HTTP_AUTHORIZATION"].chars)

\* C22: X-Forwarded-For is the incoming non-empty value with the client
\* address appended, the client address alone otherwise; X-Correlation-ID is
\* the incoming non-empty X-Correlation-ID, else the non-empty X-Unique-ID,
\* else absent; Authorization is passed on exactly when it is non-empty.
C22_HeadersFollowNonEmptyValues ==
    CallSent =>
        LET META == RemoteMETA
            h == RemoteHeaders
        IN /\ h["X-Forwarded-For"] =
                 IF HasValue(META, "HTTP_X_FORWARDED_FOR")
                 THEN AppendedTo(META["HTTP_X_FORWARDED_FOR"], META["REMOTE_ADDR"])
                 ELSE Bytes(META["REMOTE_ADDR"].chars)
           /\ IF HasValue(META, "HTTP_X_CORRELATION_ID")
              THEN /\ "X-Correlation-ID" \in DOMAIN h
                   /\ h["X-Correlation-ID"] = Bytes(META["HTTP_X_CORRELATION_ID"].chars)
              ELSE IF HasValue(META, "HTTP_X_UNIQUE_ID")
              THEN /\ "X-Correlation-ID" \in DOMAIN h
                   /\ h["X-Correlation-ID"] = Bytes(META["HTTP_X_UNIQUE_ID"].chars)
              ELSE "X-Correlation-ID" \notin DOMAIN h
           /\ "Authorization" \in DOMAIN h <=> HasValue(META, "HTTP_AUTHORIZATION")
           /\ "Authorization" \in DOMAIN h =>
                  h["Authorization"] = Bytes(META["HTTP_AUTHORIZATION"].chars)

\* A forwarded request with an empty X-Correlation-ID and an X-Unique-ID.
C22_Witness ==
    /\ CallSent
    /\ RemoteMETA["REMOTE_ADDR"] = Str(<<"1">>)
    /\ HasValue(RemoteMETA, "HTTP_X_FORWARDED_FOR")
    /\ "HTTP_X_CORRELATION_ID" \in DOMAIN RemoteMETA
    /\ ~HasValue(RemoteMETA, "HTTP_X_CORRELATION_ID")
    /\ HasValue(RemoteMETA, "HTTP_X_UNIQUE_ID")
    /\ HasValue(RemoteMETA, "HTTP_AUTHORIZATION")
    /\ RemoteHeaders["X-Forwarded-For"] = Bytes(<<"9", " ", "1">>)
    /\ RemoteHeaders["X-Correlation-ID"] = Bytes(<<"u">>)
    /\ RemoteHeaders["Authorization"] = Bytes(<<"t">>)

\* META with the Cookie header absent, empty and set.
CookieVariants(META) ==
    LET rest == [k \in DOMAIN META \ {"HTTP_COOKIE"} |-> META[k]]
    IN {rest, Put(rest, "HTTP_COOKIE", Str(<<>>)),
        Put(rest, "HTTP_COOKIE", MetaValue("HTTP_COOKIE"))}

\* C30: a request that differs from the one sent only in a header outside
\* the allow-list gets the same outbound headers, and these are Accept,
\* X-Forwarded-For, X-Correlation-ID and the allow-listed Authorization only.
C30_OnlyAllowListedHeadersLeave ==
    CallSent =>
        /\ \A META \in CookieVariants(RemoteMETA) :
              get_headers(META) = RemoteHeaders
        /\ DOMAIN RemoteHeaders \subseteq
               {"Accept", "X-Forwarded-For", "X-Correlation-ID", "Authorization"}
        /\ \A h \in DOMAIN RemoteHeaders :
              RemoteHeaders[h].chars # MetaValue("HTTP_COOKIE").chars

\* A request with a Cookie and an Authorization header was forwarded.
C30_Witness ==
    /\ CallSent
    /\ HasValue(RemoteMETA, "HTTP_COOKIE")
    /\ HasValue(RemoteMETA, "HTTP_AUTHORIZATION")
    /\ "Authorization" \in DOMAIN RemoteHeaders
    /\ "Cookie" \notin DOMAIN RemoteHeaders

\* The exception http_pool.request raised is one of the timeout classes.
IsTimeout(e) == isinstance(e, {"TimeoutError", "urllib3.exceptions.TimeoutError"})

APIExceptions ==
    {"GatewayTimeout", "ServiceUnavailable", "BadGateway", "RemoteAPIException",
     "NotAuthenticated", "NotFound"}

\* C24: whatever the upstream call gives, the call returns the data of a 200
\* response or raises one of the API's errors, and only a 200 is returned.
C24_NoRawErrorEscapes ==
    (remote.error # None \/ remote.response # None) =>
        LET r == remote.result[1]
        IN IF r.outcome = "return"
           THEN /\ remote.response # None
                /\ remote.response[1].status = 200
                /\ Some(r.value) = orjson_loads(remote.response[1].data)
           ELSE r.exception \in APIExceptions

\* C28: a non-200 response is answered by its status: 403 by the 403 error,
\* 404 by a 404, a problem+json 400 by a 400, anything else but a redirect
\* to the authorize page by BadGateway; data that fails validation by a 502.
C28_AnswersByUpstreamStatus ==
    /\ (remote.response # None /\ remote.response[1].status # 200) =>
          LET resp == remote.response[1]
              r == remote.result[1]
              content_type == dict_get(resp.headers, "content-type", <<>>)
          IN /\ r.outcome = "raise"
             /\ CASE resp.status = 403 -> r.exception = "NotAuthenticated"
                  [] resp.status = 404 ->
                        \/ r.exception = "NotFound"
                        \/ /\ r.exception = "RemoteAPIException"
                           /\ r.status_code = Some(404)
                           /\ content_type = ContentType_problem
                  [] resp.status = 400 /\ content_type = ContentType_problem ->
                        /\ r.exception = "RemoteAPIException"
                        /\ r.status_code = Some(400)
                  [] resp.status \in 300..399
                       /\ contains(dict_get(resp.headers, "Location", <<>>),
                                   <<"/oauth/authorize">>) -> TRUE
                  [] OTHER -> r.exception = "BadGateway"
    /\ (remote.answer # None /\ remote.answer[1].outcome = "raise") =>
          /\ remote.answer[1].exception = "RemoteAPIException"
          /\ remote.answer[1].status_code = Some(502)

(***************************************************************************)
(* Serializer fields: TemporalReadOnlyField                                *)
(***************************************************************************)

MaxPkLen == 4
PkChars == {"a", "@", "2"}
\* Stored primary keys: plain and composite ones, and odd ones.
PkValues == UNION { [1..n -> PkChars] : n \in 0..MaxPkLen }
\* The serializer context: without a request, or with one that the
\* middleware marked as versioned or not.
FieldRequests ==
    [versioned : BOOLEAN,
     dataset_temporal_slice : {None, Some([key |-> "geldigOp", value |-> <<"2">>])}]
Contexts == {<<>>} \cup { [k \in {"request"} |-> r] : r \in FieldRequests }
TemporalIdentifier == "versie"

\* split_on_separator of dso_api.dynamic_api.utils: the parts of the value
\* around the separator of identifier@version.
split_on_separator(value) == split(value, "@")

\* to_representation splitting whatever the request.
ToRepresentationAlwaysSplit(context, value) == split_on_separator(value)[1]

\* TemporalReadOnlyField.to_representation
TemporalReadOnlyField_to_representation(context, value) ==
    IF "request" \in DOMAIN context /\ context["request"].versioned
    THEN split_on_separator(value)[1]
    ELSE value

\* reverse() and "{}?{}={}".format: the detail URL of a lookup value, with
\* or without a query.
Url(lookup_value, query) == [outcome |-> "url", lookup |-> lookup_value, query |-> query]

\* TemporalHyperlinkedRelatedField.get_url
TemporalHyperlinkedRelatedField_get_url(obj, req) ==
    IF obj.pk = <<>> THEN [outcome |-> "None"]
    ELSE IF req.versioned /\ obj.is_temporal
    THEN LET parts == split_on_separator(obj.pk)
         IN IF Len(parts) # 2 THEN [outcome |-> "ValueError"]
            ELSE LET lookup_value == parts[1]
                     version == parts[2]
                 IN IF req.dataset_temporal_slice = None
                    THEN Url(lookup_value,
                             Some([key |-> TemporalIdentifier, value |-> version]))
                    ELSE Url(lookup_value, req.dataset_temporal_slice)
    ELSE Url(obj.pk, None)

FieldIdle == field_call = NoCall

ApplyToRepresentation ==
    /\ FieldIdle
    /\ \E context \in Contexts, value \in PkValues :
          field_call' =
              [op |-> "to_representation",
               args |-> [context |-> context, value |-> value],
               result |-> TemporalReadOnlyField_to_representation(context, value)]
    /\ FieldFrame

ApplyGetUrl ==
    /\ FieldIdle
    /\ \E pk \in PkValues, is_temporal \in BOOLEAN, req \in FieldRequests :
          field_call' =
              [op |-> "get_url",
               args |-> [obj |-> [pk |-> pk, is_temporal |-> is_temporal],
                         request |-> req],
               result |-> TemporalHyperlinkedRelatedField_get_url(
                              [pk |-> pk, is_temporal |-> is_temporal], req)]
    /\ FieldFrame

\* The value has the form identifier@version.
IsComposite(value) == Cardinality({ i \in 1..Len(value) : value[i] = "@" }) = 1
VersionedContext(context) ==
    "request" \in DOMAIN context /\ context["request"].versioned

\* C25: with a versioned request in the context a key identifier@version is
\* rendered as its identifier, and joining that identifier and the split-off
\* version with the separator gives the stored key back; without such a
\* request the stored value is rendered as it is.  The link of a temporal
\* object is built from the same two parts.
C25_RendersIdentifierReversibly ==
    /\ field_call.op = "to_representation" =>
          LET value == field_call.args.value
              context == field_call.args.context
              rendered == field_call.result
          IN IF VersionedContext(context)
             THEN IsComposite(value) =>
                      /\ \A i \in 1..Len(rendered) : rendered[i] # "@"
                      /\ \E version \in PkValues :
                            /\ rendered \o <<"@">> \o version = value
                            /\ split_on_separator(value) = <<rendered, version>>
                            /\ join(<<rendered, version>>, "@") = value
             ELSE rendered = value
    /\ field_call.op = "get_url" =>
          LET obj == field_call.args.obj
              req == field_call.args.request
              url == field_call.result
          IN (obj.is_temporal /\ req.versioned /\ IsComposite(obj.pk)
                  /\ req.dataset_temporal_slice = None) =>
                 /\ url.outcome = "url"
                 /\ url.lookup \o <<"@">> \o url.query[1].value = obj.pk

\* The key a@2 was rendered as a for a versioned request.
C25_Witness ==
    /\ field_call.op = "to_representation"
    /\ VersionedContext(field_call.args.context)
    /\ field_call.args.value = <<"a", "@", "2">>
    /\ field_call.result = <<"a">>

(***************************************************************************)
(* create_tables                                                           *)
(***************************************************************************)

NDatasets == 2
\* The models schema_models_factory makes of a dataset's schema: dataset d
\* has d tables.
schema_models_factory(dataset) == [t \in 1..dataset |-> <<dataset, t>>]
\* Dataset.objects.all(): any of the datasets, in any order.
RECURSIVE DatasetLists(_)
DatasetLists(n) ==
    IF n = 0 THEN {<<>>}
    ELSE DatasetLists(n - 1)
         \cup { Append(l, d) : l \in { m \in DatasetLists(n - 1) : Len(m) = n - 1 },
                               d \in 1..NDatasets }
DatasetInputs ==
    { l \in DatasetLists(NDatasets) : \A i, j \in 1..Len(l) : i # j => l[i] # l[j] }
\* models.extend over the datasets
RECURSIVE all_models_of(_)
all_models_of(datasets) ==
    IF datasets = <<>> THEN <<>>
    ELSE schema_models_factory(Head(datasets)) \o all_models_of(Tail(datasets))

CreateErrors == {"DatabaseError", "ValueError"}

NoRun ==
    [pc |-> "idle", models |-> <<>>, i |-> 0, tables |-> {}, attempted |-> <<>>,
     errors |-> 0, raised |-> None]
TablesIdle == ct = NoRun

\* The except clause giving up on the models that follow.
OnCreateErrorStops(run, e) ==
    [run EXCEPT !.i = Len(run.models),
                !.attempted = Append(@, [model |-> run.models[run.i + 1],
                                         outcome |-> e]),
                !.errors = @ + 1]

\* except (DatabaseError, ValueError): the atomic block has undone what the
\* failed creation did, the error is counted and the loop goes on.
on_create_error(run, e) ==
    [run EXCEPT !.i = @ + 1,
                !.attempted = Append(@, [model |-> run.models[run.i + 1],
                                         outcome |-> e]),
                !.errors = @ + 1]

\* create_tables up to the loop: the models of all datasets are collected.
StartCreateTables ==
    /\ TablesIdle
    /\ \E datasets \in DatasetInputs :
          ct' = [ct EXCEPT !.pc = "loop", !.models = all_models_of(datasets)]
    /\ TablesFrame

\* schema_editor.create_model succeeds inside its atomic block.
CreateModelSucceeds ==
    /\ ct.pc = "loop"
    /\ ct.i < Len(ct.models)
    /\ ct' = [ct EXCEPT !.i = @ + 1,
                        !.tables = @ \cup {ct.models[ct.i + 1]},
                        !.attempted = Append(@, [model |-> ct.models[ct.i + 1],
                                                 outcome |-> "created"])]
    /\ TablesFrame

\* schema_editor.create_model raises a DatabaseError or a ValueError.
CreateModelFails ==
    /\ ct.pc = "loop"
    /\ ct.i < Len(ct.models)
    /\ \E e \in CreateErrors : ct' = on_create_error(ct, e)
    /\ TablesFrame

\* After the loop: CommandError if any creation failed.
FinishCreateTables ==
    /\ ct.pc = "loop"
    /\ ct.i = Len(ct.models)
    /\ ct' = [ct EXCEPT !.pc = "done",
                        !.raised = IF ct.errors # 0 THEN Some("CommandError")
                                   ELSE None]
    /\ TablesFrame

Failed(run) ==
    { k \in 1..Len(run.attempted) : run.attempted[k].outcome \in CreateErrors }

RestIdle == OrderingIdle /\ RemoteIdle /\ FieldIdle /\ TablesIdle

InitMiddleware ==
    MwInit /\ RegIdle /\ RouterInit /\ AuthInit /\ FilterIdle /\ RestIdle
SpecMiddleware == InitMiddleware /\ [][MwNext]_vars

InitRegistry ==
    RegInit /\ MwIdle /\ RouterInit /\ AuthInit /\ FilterIdle /\ RestIdle
SpecRegistry == InitRegistry /\ [][RegNext]_vars

InitRouter ==
    RouterInit /\ MwIdle /\ RegIdle /\ AuthInit /\ FilterIdle /\ RestIdle
SpecRouter == InitRouter /\ [][RouterNext]_vars

InitAuth ==
    AuthInit /\ MwIdle /\ RegIdle /\ RouterInit /\ FilterIdle /\ RestIdle
SpecAuth == InitAuth /\ [][AuthNext]_vars

FilterNext ==
    \/ ApplyWildcard
    \/ ApplyNotEqual
    \/ ApplyIsEmpty
    \/ ApplyMultipleValue
    \/ ApplyRange
    \/ ApplyFlexDateTime
    \/ SkipFlexDateTime
    \/ ApplyGeometry
    \/ ApplyGeometryValue
    \/ ApplyOrdering

InitFilters ==
    FilterIdle /\ MwIdle /\ RegIdle /\ RouterInit /\ AuthInit /\ RestIdle
SpecFilters == InitFilters /\ [][FilterNext]_vars

RemoteNext ==
    \/ CallRemote
    \/ RequestFails
    \/ RequestResponds
    \/ Validate

InitRemote ==
    /\ RemoteIdle /\ MwIdle /\ RegIdle /\ RouterInit /\ AuthInit /\ FilterIdle
    /\ OrderingIdle /\ FieldIdle /\ TablesIdle
SpecRemote == InitRemote /\ [][RemoteNext]_vars

FieldsNext ==
    \/ ApplyToRepresentation
    \/ ApplyGetUrl

InitFields ==
    /\ FieldIdle /\ MwIdle /\ RegIdle /\ RouterInit /\ AuthInit /\ FilterIdle
    /\ OrderingIdle /\ RemoteIdle /\ TablesIdle
SpecFields == InitFields /\ [][FieldsNext]_vars

OrderingNext ==
    \/ GetOrdering
    \/ NewInstance

InitOrdering ==
    /\ OrderingIdle /\ MwIdle /\ RegIdle /\ RouterInit /\ AuthInit /\ FilterIdle
    /\ RemoteIdle /\ FieldIdle /\ TablesIdle
SpecOrdering == InitOrdering /\ [][OrderingNext]_vars

TablesNext ==
    \/ StartCreateTables
    \/ CreateModelSucceeds
    \/ CreateModelFails
    \/ FinishCreateTables

InitTables ==
    /\ TablesIdle /\ MwIdle /\ RegIdle /\ RouterInit /\ AuthInit /\ FilterIdle
    /\ OrderingIdle /\ RemoteIdle /\ FieldIdle
SpecTables == InitTables /\ [][TablesNext]_vars

=============================================================================
